---- MODULE Spec2Model ----
(***************************************************************************)
(* A model of the line editor (Line::Editor) of                            *)
(* src/Libraries/LibWeb/DOM/Node.idl: the buffer, the cursor, the history  *)
(* recall, the anchored style spans and the input state machine of         *)
(* Editor::handle_read_event.                                              *)
(***************************************************************************)
EXTENDS Integers, Sequences, FiniteSets, TLC

(***************************************************************************)
(* Bounds of the model.                                                    *)
(***************************************************************************)
\* The longest buffer (and history entry) the model lets the user build.
MaxLen == 3
\* The largest history search offset the model follows (and the distance
\* below the wrap-around point it follows a wrapped offset).
MaxSearchOffset == 3
\* The number of anchored spans held at once in the span specifications.
MaxSpans == 1
\* The largest span offset the model follows (and the distance below the
\* wrap-around point it follows a wrapped offset).
MaxOffset == 5

(***************************************************************************)
(* size_t arithmetic.  size_t is 32 bits wide on the i686 target; the      *)
(* model keeps the wrap-around with a smaller modulus, 2^16.            *)
(***************************************************************************)
SizeModulus == 65536

Wrap(x) == x % SizeModulus


(***************************************************************************)
(* Code points.                                                            *)
(***************************************************************************)
ESC == 27
LF == 10
CR == 13
BEL == 7
TAB == 9
BS == 8
SPACE == 32
\* m_termios.c_cc[...] of the terminal the session runs on (the defaults).
VERASE == 127
VWERASE == 23
VKILL == 21
VEOF == 4

Chr_LBracket == 91
Chr_Dot == 46
Chr_0 == 48
Chr_3 == 51
Chr_Semicolon == 59
Chr_RBracket == 93
Chr_m == 109
Chr_Tilde == 126
Chr_A == 65
Chr_B == 66
Chr_C == 67
Chr_D == 68
Chr_E == 69
Chr_F == 70
Chr_H == 72
Chr_K == 75
Chr_L == 76
Chr_N == 78
Chr_O == 79
Chr_P == 80
Chr_R == 82
Chr_T == 84
Chr_X == 88
Chr_Z == 90
Chr_b == 98
Chr_c == 99
Chr_d == 100
Chr_f == 102
Chr_l == 108
Chr_t == 116
Chr_u == 117
Chr_x == 120

\* constexpr u32 ctrl(char c) { return c & 0x3f; }
ctrl(c) == c % 64

\* <ctype.h>, "C" locale, on the ASCII code points the model uses.
isalnum(c) == (c >= 48 /\ c <= 57) \/ (c >= 65 /\ c <= 90) \/ (c >= 97 /\ c <= 122)
isdigit(c) == c >= 48 /\ c <= 57
isspace(c) == c = 32 \/ (c >= 9 /\ c <= 13)
toupper(c) == IF c >= 97 /\ c <= 122 THEN c - 32 ELSE c
tolower(c) == IF c >= 65 /\ c <= 90 THEN c + 32 ELSE c

(***************************************************************************)
(* Sequences.                                                              *)
(***************************************************************************)
Min(a, b) == IF a <= b THEN a ELSE b

\* Vector::insert(index, value), index in 0..Len(s).
InsertAt(s, index, v) == SubSeq(s, 1, index) \o <<v>> \o SubSeq(s, index + 1, Len(s))

\* Vector::remove(index), index in 0..Len(s)-1.
RemoveAt(s, index) == SubSeq(s, 1, index) \o SubSeq(s, index + 2, Len(s))

\* Utf32View { m_buffer.data(), n }: the first n code points of the storage
\* of the buffer.  Past m_buffer.size() the view reads what the storage was
\* left with, which the program does not determine: stale_storage.
BufferView(e, n) ==
    IF n <= Len(e.m_buffer) THEN SubSeq(e.m_buffer, 1, n)
    ELSE e.m_buffer \o SubSeq(e.stale_storage, 1, n - Len(e.m_buffer))

\* String::starts_with(phrase): the empty phrase starts every string.
StartsWith(s, phrase) ==
    /\ Len(phrase) <= Len(s)
    /\ SubSeq(s, 1, Len(phrase)) = phrase

\* String::contains(phrase): strstr, the empty phrase is found in every string.
Contains(s, phrase) ==
    \E i \in 0..(Len(s) - Len(phrase)) : SubSeq(s, i + 1, i + Len(phrase)) = phrase

\* The words of String::split_view(' '): the maximal runs without a space.
RECURSIVE SplitView(_, _, _)
SplitView(s, i, word) ==
    IF i > Len(s) THEN (IF word = <<>> THEN <<>> ELSE <<word>>)
    ELSE IF s[i] = SPACE
         THEN (IF word = <<>> THEN <<>> ELSE <<word>>) \o SplitView(s, i + 1, <<>>)
         ELSE SplitView(s, i + 1, Append(word, s[i]))

(***************************************************************************)
(* Hash maps (AK::HashMap) as functions.                                   *)
(***************************************************************************)
EmptyMap == [k \in {} |-> 0]

MapGet(m, k) == IF k \in DOMAIN m THEN m[k] ELSE EmptyMap

MapSet(m, k, v) == [x \in (DOMAIN m) \cup {k} |-> IF x = k THEN v ELSE m[x]]

(***************************************************************************)
(* Styles (Line::Style): the graphic renditions, the colours (0 is the     *)
(* default colour), the hyperlink (the empty string is no link) and        *)
(* whether the style is anchored.                                          *)
(***************************************************************************)
MkStyle(bold, italic, underline, fg, bg, link, anchored) ==
    [bold |-> bold, italic |-> italic, underline |-> underline,
     foreground |-> fg, background |-> bg, hyperlink |-> link,
     is_anchored |-> anchored]

\* Style::is_empty(): nothing set.
StyleIsEmpty(st) ==
    /\ ~st.bold /\ ~st.italic /\ ~st.underline
    /\ st.foreground = 0 /\ st.background = 0 /\ st.hyperlink = ""

\* void Style::unify_with(const Style& other, bool prefer_other): the
\* receiver after the call.
UnifyWith(style, other, prefer_other) ==
    [style EXCEPT
        !.background = IF prefer_other \/ @ = 0 THEN other.background ELSE @,
        !.foreground = IF prefer_other \/ @ = 0 THEN other.foreground ELSE @,
        !.bold = @ \/ other.bold,
        !.italic = @ \/ other.italic,
        !.underline = @ \/ other.underline,
        !.hyperlink = IF prefer_other \/ @ = "" THEN other.hyperlink ELSE @]

AnchoredUnderline == MkStyle(FALSE, FALSE, TRUE, 0, 0, "", TRUE)

(***************************************************************************)
(* The editor object.  A value of this record is the state of one          *)
(* Line::Editor; the fields keep the names of the members.  bell is the    *)
(* '\a' written to stderr by the operation in progress.                    *)
(***************************************************************************)

NoError == "None"

\* stylize with the by-end table keeping the style of an entry it has.
StylizeTablesEndKept(starting, ending, start, end, style) ==
    [starting |-> MapSet(starting, start, MapSet(MapGet(starting, start), end, style)),
     ending |-> IF start \in DOMAIN MapGet(ending, end) THEN ending
                ELSE MapSet(ending, end, MapSet(MapGet(ending, end), start, style)),
     is_new |-> \/ end \notin DOMAIN MapGet(starting, start)
                \/ start \notin DOMAIN MapGet(ending, end)]

\* void Editor::stylize(const Span& span, const Style& style), code-point
\* oriented: the span is entered in the by-start and in the by-end table of
\* its collection; a new entry asks for a refresh.
StylizeTables(starting, ending, start, end, style) ==
    [starting |-> MapSet(starting, start, MapSet(MapGet(starting, start), end, style)),
     ending |-> MapSet(ending, end, MapSet(MapGet(ending, end), start, style)),
     is_new |-> \/ end \notin DOMAIN MapGet(starting, start)
                \/ start \notin DOMAIN MapGet(ending, end)]

Stylize(e, start, end, style) ==
    IF StyleIsEmpty(style) THEN e
    ELSE IF style.is_anchored
    THEN LET t == StylizeTables(e.m_anchored_spans_starting, e.m_anchored_spans_ending,
                                start, end, style)
         IN [e EXCEPT !.m_anchored_spans_starting = t.starting,
                      !.m_anchored_spans_ending = t.ending,
                      !.m_refresh_needed = @ \/ t.is_new]
    ELSE LET t == StylizeTables(e.m_spans_starting, e.m_spans_ending, start, end, style)
         IN [e EXCEPT !.m_spans_starting = t.starting,
                      !.m_spans_ending = t.ending,
                      !.m_refresh_needed = @ \/ t.is_new]

\* void Editor::strip_styles(bool strip_anchored)
StripStyles(e, strip_anchored) ==
    [e EXCEPT
        !.m_spans_starting = EmptyMap,
        !.m_spans_ending = EmptyMap,
        !.m_anchored_spans_starting = IF strip_anchored THEN EmptyMap ELSE @,
        !.m_anchored_spans_ending = IF strip_anchored THEN EmptyMap ELSE @,
        !.m_refresh_needed = TRUE]

\* The spans <<start, end>> of a by-start table.
SpansOf(starting) ==
    UNION {{<<s, en>> : en \in DOMAIN starting[s]} : s \in DOMAIN starting}

\* The order the model walks a by-start table in: by start, then by end.
FirstSpan(spans) ==
    LET s == CHOOSE x \in {sp[1] : sp \in spans} :
                 \A y \in {sp[1] : sp \in spans} : x <= y
        en == CHOOSE x \in {sp[2] : sp \in {q \in spans : q[1] = s}} :
                 \A y \in {sp[2] : sp \in {q \in spans : q[1] = s}} : x <= y
    IN <<s, en>>


\* The relocation with the end of a span moved when it is at the hint.
RelocatedEndInclusive(start, end, hint_index, modification) ==
    LET index_shift == IF modification = "Insertion" THEN 1 ELSE -1
        forced_removal == modification = "ForcedOverlapRemoval"
    IN IF forced_removal /\ start <= hint_index /\ end > hint_index THEN <<>>
       ELSE IF start >= hint_index
       THEN (IF start = hint_index /\ end = hint_index + 1 /\ modification = "Removal"
             THEN <<>> ELSE <<Wrap(start + index_shift), Wrap(end + index_shift)>>)
       ELSE IF end >= hint_index THEN <<start, Wrap(end + index_shift)>>
       ELSE <<start, end>>

\* The relocation with the start of a span left where it is.
RelocatedEndOnly(start, end, hint_index, modification) ==
    LET index_shift == IF modification = "Insertion" THEN 1 ELSE -1
        forced_removal == modification = "ForcedOverlapRemoval"
    IN IF forced_removal /\ start <= hint_index /\ end > hint_index THEN <<>>
       ELSE IF end > hint_index THEN <<start, Wrap(end + index_shift)>>
       ELSE <<start, end>>

\* The loop body of readjust_anchored_styles for one entry: <<>> when the
\* span is dropped, else <<new start, new end>>.  The shifts are size_t
\* additions of index_shift (+1 or -1).
Relocated(start, end, hint_index, modification) ==
    LET index_shift == IF modification = "Insertion" THEN 1 ELSE -1
        forced_removal == modification = "ForcedOverlapRemoval"
    IN IF forced_removal /\ start <= hint_index /\ end > hint_index
       THEN <<>>
       ELSE IF start >= hint_index
       THEN (IF start = hint_index /\ end = hint_index + 1 /\ modification = "Removal"
             THEN <<>>
             ELSE <<Wrap(start + index_shift), Wrap(end + index_shift)>>)
       ELSE IF end > hint_index
       THEN <<start, Wrap(end + index_shift)>>
       ELSE <<start, end>>

\* The second loop of readjust_anchored_styles: stylize every relocation.
RECURSIVE Restylize(_, _, _, _, _)
Restylize(e, old_starting, todo, hint_index, modification) ==
    IF todo = {} THEN e
    ELSE LET sp == FirstSpan(todo)
             to == Relocated(sp[1], sp[2], hint_index, modification)
             next == IF to = <<>> THEN e
                     ELSE Stylize(e, to[1], to[2], old_starting[sp[1]][sp[2]])
         IN Restylize(next, old_starting, todo \ {sp}, hint_index, modification)

\* void Editor::readjust_anchored_styles(size_t hint_index, ModificationKind)
ReadjustAnchoredStyles(e, hint_index, modification) ==
    LET old_starting == e.m_anchored_spans_starting
        cleared == [e EXCEPT !.m_anchored_spans_starting = EmptyMap,
                             !.m_anchored_spans_ending = EmptyMap]
    IN IF old_starting = EmptyMap THEN cleared
       ELSE Restylize(cleared, old_starting, SpansOf(old_starting), hint_index, modification)

\* void Editor::insert(const u32 cp)
Insert(e, cp) ==
    LET r == ReadjustAnchoredStyles(e, e.m_cursor, "Insertion")
    IN [r EXCEPT
          !.m_pending_chars = Append(@, cp),
          !.m_buffer = InsertAt(@, e.m_cursor, cp),
          !.m_chars_inserted_in_the_middle =
              IF e.m_cursor = Len(e.m_buffer) THEN @ ELSE @ + 1,
          !.m_cursor = e.m_cursor + 1,
          !.m_inline_search_cursor = e.m_cursor + 1]

\* void Editor::insert(const String&): code point by code point.
RECURSIVE InsertString(_, _)
InsertString(e, str) ==
    IF str = <<>> THEN e ELSE InsertString(Insert(e, Head(str)), Tail(str))

\* void Editor::remove_at_index(size_t index)
RemoveAtIndex(e, index) ==
    LET r == ReadjustAnchoredStyles(e, index, "Removal")
    IN [r EXCEPT
          !.m_buffer = RemoveAt(@, index),
          !.m_extra_forward_lines = IF e.m_buffer[index + 1] = LF THEN @ + 1 ELSE @]

(***************************************************************************)
(* History search.                                                         *)
(***************************************************************************)
\* The loop of Editor::search: i runs from m_history_cursor down to 1;
\* the result is last_matching_offset (-1: no entry matched).
RECURSIVE SearchLoop(_, _, _, _, _, _)
SearchLoop(history, i, phrase, from_beginning, search_offset, last_matching_offset) ==
    IF i = 0 THEN last_matching_offset
    ELSE LET contains == IF from_beginning THEN StartsWith(history[i], phrase)
                         ELSE Contains(history[i], phrase)
         IN IF contains
            THEN (IF search_offset = 0 THEN i - 1
                  ELSE SearchLoop(history, i - 1, phrase, from_beginning,
                                  search_offset - 1, i - 1))
            ELSE SearchLoop(history, i - 1, phrase, from_beginning,
                            search_offset, last_matching_offset)

\* bool Editor::search(const StringView& phrase, bool allow_empty, bool from_beginning):
\* the editor after the call, with the value returned in search_result.
Search(e, phrase, allow_empty, from_beginning) ==
    LET last_matching_offset ==
            IF allow_empty \/ Len(phrase) > 0
            THEN SearchLoop(e.m_history, e.m_history_cursor, phrase, from_beginning,
                            e.m_search_offset, -1)
            ELSE -1
        rang == (allow_empty \/ Len(phrase) > 0) /\ last_matching_offset = -1
        cleared == [e EXCEPT !.m_buffer = <<>>, !.m_cursor = 0,
                             !.bell = @ \/ rang]
        filled == IF last_matching_offset >= 0
                  THEN InsertString(cleared, e.m_history[last_matching_offset + 1])
                  ELSE cleared
    IN [filled EXCEPT !.m_refresh_needed = TRUE,
                      !.search_result = last_matching_offset >= 0]

(***************************************************************************)
(* The helpers of Editor::handle_read_event.                               *)
(***************************************************************************)
\* do_cursor_left(Word) without skipped_at_least_one_character: the loop
\* stops at once when a non-alphanumeric precedes the cursor.
RECURSIVE CursorLeftWordFromCursor(_, _, _)
CursorLeftWordFromCursor(buffer, cursor, skipped_at_least_one_character) ==
    IF cursor = 0 THEN cursor
    ELSE IF ~isalnum(buffer[cursor]) THEN cursor
    ELSE CursorLeftWordFromCursor(buffer, cursor - 1, TRUE)

\* do_cursor_left(Word): the loop.
RECURSIVE CursorLeftWord(_, _, _)
CursorLeftWord(buffer, cursor, skipped_at_least_one_character) ==
    IF cursor = 0 THEN cursor
    ELSE IF skipped_at_least_one_character /\ ~isalnum(buffer[cursor])
    THEN cursor
    ELSE CursorLeftWord(buffer, cursor - 1, TRUE)

\* do_cursor_left(amount)
DoCursorLeft(e, amount) ==
    LET cursor == IF e.m_cursor > 0
                  THEN (IF amount = "Word" THEN CursorLeftWord(e.m_buffer, e.m_cursor, FALSE)
                        ELSE e.m_cursor - 1)
                  ELSE e.m_cursor
    IN [e EXCEPT !.m_cursor = cursor, !.m_inline_search_cursor = cursor]

\* do_cursor_right(Word): the loop, on the buffer with a space appended.
RECURSIVE CursorRightWord(_, _)
CursorRightWord(buffer, cursor) ==
    IF cursor >= Len(buffer) THEN cursor
    ELSE IF ~isalnum(buffer[cursor + 2]) THEN cursor + 1
    ELSE CursorRightWord(buffer, cursor + 1)

\* do_cursor_right without the test m_cursor < m_buffer.size().
DoCursorRightUnguarded(e, amount) ==
    [e EXCEPT !.m_cursor = e.m_cursor + 1, !.m_inline_search_cursor = e.m_cursor + 1,
              !.m_search_offset = 0]

\* do_cursor_right(amount)
DoCursorRight(e, amount) ==
    LET cursor == IF e.m_cursor < Len(e.m_buffer)
                  THEN (IF amount = "Word"
                        THEN CursorRightWord(Append(e.m_buffer, SPACE), e.m_cursor)
                        ELSE e.m_cursor + 1)
                  ELSE e.m_cursor
    IN [e EXCEPT !.m_cursor = cursor, !.m_inline_search_cursor = cursor,
                 !.m_search_offset = 0]

\* if (search(...)) ++m_search_offset; else insert(search_phrase);
CountHit(s, search_phrase) ==
    IF s.search_result
    THEN [s EXCEPT !.m_search_offset = Wrap(@ + 1)]
    ELSE InsertString(s, search_phrase)

\* if (!search(...)) insert(search_phrase);
RestoreOnMiss(s, search_phrase) ==
    IF ~s.search_result THEN InsertString(s, search_phrase) ELSE s

\* do_search_backwards counting before it searches.
DoSearchBackwardsCountFirst(e) ==
    [RestoreOnMiss(Search([e EXCEPT !.m_searching_backwards = TRUE,
                                    !.m_search_offset = Wrap(@ + 1)],
                          BufferView(e, e.m_inline_search_cursor), TRUE, TRUE),
                   BufferView(e, e.m_inline_search_cursor))
        EXCEPT !.m_inline_search_cursor = e.m_inline_search_cursor]

\* do_search_backwards
DoSearchBackwards(e) ==
    [CountHit(Search([e EXCEPT !.m_searching_backwards = TRUE],
                     BufferView(e, e.m_inline_search_cursor), TRUE, TRUE),
              BufferView(e, e.m_inline_search_cursor))
        EXCEPT !.m_inline_search_cursor = e.m_inline_search_cursor]

\* do_search_forwards
DoSearchForwards(e) ==
    LET inline_search_cursor == e.m_inline_search_cursor
        search_phrase == BufferView(e, inline_search_cursor)
        search_changed_directions == IF e.m_searching_backwards THEN 1 ELSE 0
    IN [(IF e.m_search_offset > 0
         THEN RestoreOnMiss(Search([e EXCEPT !.m_searching_backwards = FALSE,
                                             !.m_search_offset =
                                                 Wrap(@ - (1 + search_changed_directions))],
                                   search_phrase, TRUE, TRUE),
                            search_phrase)
         ELSE [InsertString([e EXCEPT !.m_searching_backwards = FALSE,
                                      !.m_search_offset = 0, !.m_cursor = 0,
                                      !.m_buffer = <<>>], search_phrase)
                  EXCEPT !.m_refresh_needed = TRUE])
          EXCEPT !.m_inline_search_cursor = inline_search_cursor]

\* do_backspace
DoBackspace(e) ==
    IF e.m_is_searching THEN e
    ELSE IF e.m_cursor = 0 THEN [e EXCEPT !.bell = TRUE]
    ELSE [RemoveAtIndex(e, e.m_cursor - 1) EXCEPT
             !.m_cursor = e.m_cursor - 1,
             !.m_inline_search_cursor = e.m_cursor - 1,
             !.m_refresh_needed = TRUE]

\* do_delete
DoDelete(e) ==
    IF e.m_cursor = Len(e.m_buffer) THEN [e EXCEPT !.bell = TRUE]
    ELSE [RemoveAtIndex(e, e.m_cursor) EXCEPT !.m_refresh_needed = TRUE]

\* ^[^H (alt-backspace): backward delete word, the while loop.
RECURSIVE BackwardDeleteWord(_, _)
BackwardDeleteWord(e, has_seen_alnum) ==
    IF ~(e.m_cursor > 0) \/ e.m_is_searching THEN e
    ELSE IF ~isalnum(e.m_buffer[e.m_cursor])
    THEN (IF has_seen_alnum THEN e ELSE BackwardDeleteWord(DoBackspace(e), has_seen_alnum))
    ELSE BackwardDeleteWord(DoBackspace(e), TRUE)

\* ^[d (alt-d): forward delete word, the while loop.
RECURSIVE ForwardDeleteWord(_, _)
ForwardDeleteWord(e, has_seen_alnum) ==
    IF ~(e.m_cursor < Len(e.m_buffer)) THEN e
    ELSE IF ~isalnum(e.m_buffer[e.m_cursor + 1])
    THEN (IF has_seen_alnum THEN e ELSE ForwardDeleteWord(DoDelete(e), has_seen_alnum))
    ELSE ForwardDeleteWord(DoDelete(e), TRUE)

\* ^[c, ^[l, ^[u: the first loop skips the non-alphanumerics.
RECURSIVE SkipNonAlnumRight(_, _)
SkipNonAlnumRight(buffer, cursor) ==
    IF cursor < Len(buffer) /\ ~isalnum(buffer[cursor + 1])
    THEN SkipNonAlnumRight(buffer, cursor + 1)
    ELSE cursor

RECURSIVE SkipAlnumRight(_, _)
SkipAlnumRight(buffer, cursor) ==
    IF cursor < Len(buffer) /\ isalnum(buffer[cursor + 1])
    THEN SkipAlnumRight(buffer, cursor + 1)
    ELSE cursor

RECURSIVE SkipNonAlnumLeft(_, _)
SkipNonAlnumLeft(buffer, start) ==
    IF start > 0 /\ ~isalnum(buffer[start])
    THEN SkipNonAlnumLeft(buffer, start - 1)
    ELSE start

RECURSIVE SkipAlnumLeft(_, _)
SkipAlnumLeft(buffer, start) ==
    IF start > 0 /\ isalnum(buffer[start])
    THEN SkipAlnumLeft(buffer, start - 1)
    ELSE start

\* ^[c, ^[l, ^[u: capitalize, lowercase, uppercase the next word.
CaseWord(e, code_point) ==
    LET start == SkipNonAlnumRight(e.m_buffer, e.m_cursor)
        end == SkipAlnumRight(e.m_buffer, start)
        cased(i) == IF code_point = Chr_u \/ (code_point = Chr_c /\ i = start)
                    THEN toupper(e.m_buffer[i + 1])
                    ELSE tolower(e.m_buffer[i + 1])
    IN [e EXCEPT
          !.m_buffer = [i \in 1..Len(e.m_buffer) |->
                           IF i - 1 >= start /\ i - 1 < end THEN cased(i - 1)
                           ELSE e.m_buffer[i]],
          !.m_cursor = end,
          !.m_refresh_needed = @ \/ end > start]

\* swap_range(from, to): the code points of [from, to) reversed.
SwapRange(buffer, from, to) ==
    [i \in 1..Len(buffer) |->
        IF i - 1 >= from /\ i - 1 < to THEN buffer[from + to - (i - 1)]
        ELSE buffer[i]]

\* ^[t without the last swap_range(start, end): the two words and the gap
\* are each reversed where they are.
TransposeWordsEachReversed(e) ==
    LET cursor == SkipAlnumRight(e.m_buffer, SkipNonAlnumRight(e.m_buffer, e.m_cursor))
        end == cursor
        start_second_word == SkipAlnumLeft(e.m_buffer, SkipNonAlnumLeft(e.m_buffer, cursor))
        start_gap == SkipNonAlnumLeft(e.m_buffer, start_second_word)
        start == SkipAlnumLeft(e.m_buffer, start_gap)
    IN IF start # start_gap
       THEN [e EXCEPT
               !.m_buffer = SwapRange(
                                SwapRange(
                                    SwapRange(@, start, start_gap),
                                    start_gap, start_second_word),
                                start_second_word, end),
               !.m_cursor = cursor,
               !.m_refresh_needed = TRUE]
       ELSE e

\* ^[t (alt-t): transpose words.
TransposeWords(e) ==
    LET cursor == SkipAlnumRight(e.m_buffer, SkipNonAlnumRight(e.m_buffer, e.m_cursor))
        end == cursor
        start_second_word == SkipAlnumLeft(e.m_buffer, SkipNonAlnumLeft(e.m_buffer, cursor))
        start_gap == SkipNonAlnumLeft(e.m_buffer, start_second_word)
        start == SkipAlnumLeft(e.m_buffer, start_gap)
    IN IF start # start_gap
       THEN [e EXCEPT
               !.m_buffer = SwapRange(
                                SwapRange(
                                    SwapRange(
                                        SwapRange(@, start, start_gap),
                                        start_gap, start_second_word),
                                    start_second_word, end),
                                start, end),
               !.m_cursor = cursor,
               !.m_refresh_needed = TRUE]
       ELSE e

\* VWERASE: delete the space-delimited word before the cursor, the while loop.
RECURSIVE EraseWord(_, _)
EraseWord(e, has_seen_nonspace) ==
    IF ~(e.m_cursor > 0) \/ e.m_is_searching THEN e
    ELSE IF isspace(e.m_buffer[e.m_cursor])
    THEN (IF has_seen_nonspace THEN e ELSE EraseWord(DoBackspace(e), has_seen_nonspace))
    ELSE EraseWord(DoBackspace(e), TRUE)

\* VKILL: for (i = 0; i < m_cursor; ++i) remove_at_index(0);
RECURSIVE KillLoop(_, _)
KillLoop(e, i) ==
    IF i < e.m_cursor THEN KillLoop(RemoveAtIndex(e, 0), i + 1) ELSE e

\* ^K: while (m_cursor < m_buffer.size()) do_delete();
RECURSIVE KillToEnd(_)
KillToEnd(e) ==
    IF e.m_cursor < Len(e.m_buffer) THEN KillToEnd(DoDelete(e)) ELSE e

(***************************************************************************)
(* The editor after construction, the refresh of the display and the start *)
(* of get_line.  The bytes written to the terminal and the window size are *)
(* not part of this model: refresh_display is modelled by what it does to  *)
(* the members of the editor.                                              *)
(***************************************************************************)
\* What on_tab_complete and attempt_completion give at a tab press: the
\* number of suggestions (looked for at the first press only), the mode the
\* manager wants next, the text to insert and the number of code points to
\* remove before the cursor.  The manager gives no style.
NoAttempt ==
    [count |-> 0, new_completion_mode |-> "DontComplete", insert |-> <<>>, remove |-> 0]

\* The members after Editor::Editor(Configuration), in Lazy refresh mode,
\* with the history the caller has added.
NewEditor(history, searching_backwards) ==
    [m_buffer |-> <<>>,
     m_cursor |-> 0,
     m_drawn_cursor |-> 0,
     m_inline_search_cursor |-> 0,
     m_search_offset |-> 0,
     m_searching_backwards |-> searching_backwards,
     m_history |-> history,
     m_history_cursor |-> 0,
     m_state |-> "Free",
     m_finish |-> FALSE,
     m_input_error |-> NoError,
     m_returned_line |-> <<>>,
     m_incomplete_data |-> <<>>,
     m_pending_chars |-> <<>>,
     m_chars_inserted_in_the_middle |-> 0,
     m_extra_forward_lines |-> 0,
     m_refresh_needed |-> FALSE,
     m_cached_prompt_valid |-> FALSE,
     m_always_refresh |-> FALSE,
     m_was_interrupted |-> FALSE,
     m_was_resized |-> FALSE,
     m_is_searching |-> FALSE,
     m_is_editing |-> FALSE,
     m_initialized |-> FALSE,
     stale_storage |-> <<>>,
     m_times_tab_pressed |-> 0,
     operation_mode |-> "Full",
     environment |-> [istty |-> TRUE, xterm |-> TRUE],
     tty |-> "canonical",
     m_default_termios |-> "canonical",
     m_notifier |-> <<>>,
     deferred_invoke |-> FALSE,
     teardown_log |-> <<>>,
     observed |-> <<>>,
     on_interrupt_handled |-> FALSE,
     m_search_editor |-> <<>>,
     m_pre_search_buffer |-> <<>>,
     m_pre_search_cursor |-> 0,
     m_reset_buffer_on_search_end |-> TRUE,
     input_view_rest |-> <<>>,
     m_key_callbacks |-> {},
     on_display_refresh |-> FALSE,
     captured_this |-> <<>>,
     on_tab_complete |-> FALSE,
     suggestion_count |-> 0,
     attempt |-> NoAttempt,
     completion_log |-> <<>>,
     callback_returns |-> TRUE,
     callback_invoked |-> <<>>,
     m_spans_starting |-> EmptyMap,
     m_spans_ending |-> EmptyMap,
     m_anchored_spans_starting |-> EmptyMap,
     m_anchored_spans_ending |-> EmptyMap,
     ctrl_held |-> FALSE,
     reverse_tab |-> FALSE,
     bell |-> FALSE,
     search_result |-> FALSE]

RECURSIVE RefreshDisplay(_)

\* The hook of the search editor searching for entries that start with the
\* phrase.
OnDisplayRefreshFromBeginning(e) ==
    IF e.on_display_refresh /\ e.captured_this # <<>>
    THEN [e EXCEPT !.captured_this =
              <<RefreshDisplay(Search(e.captured_this[1], e.m_buffer, FALSE, TRUE))>>]
    ELSE e

\* if (on_display_refresh) on_display_refresh(*this): the hook Ctrl-R gives
\* the search editor captured the editor that was searching:
\* search(the buffer of the search editor); refresh_display(); search is
\* called with its default arguments, which the specification gives as a
\* substring search that does not accept an empty phrase.  A hook of the
\* caller captured no editor and leaves the editor as it is.
OnDisplayRefresh(e) ==
    IF e.on_display_refresh /\ e.captured_this # <<>>
    THEN [e EXCEPT !.captured_this =
              <<RefreshDisplay(Search(e.captured_this[1], e.m_buffer, FALSE, FALSE))>>]
    ELSE e

\* The redraw that leaves m_refresh_needed as it finds it.
RedrawStillNeeded(e) ==
    IF e.m_cached_prompt_valid /\ ~e.m_refresh_needed /\ e.m_cursor = Len(e.m_buffer)
    THEN [e EXCEPT !.m_pending_chars = <<>>, !.m_drawn_cursor = e.m_cursor]
    ELSE [e EXCEPT !.m_extra_forward_lines = 0,
                   !.m_pending_chars = <<>>,
                   !.m_chars_inserted_in_the_middle = 0,
                   !.m_cached_prompt_valid = TRUE,
                   !.m_drawn_cursor = e.m_cursor]

\* refresh_display past the hook: the characters are written, or the whole
\* line is drawn again.
Redraw(e) ==
    IF e.m_cached_prompt_valid /\ ~e.m_refresh_needed /\ e.m_cursor = Len(e.m_buffer)
    THEN [e EXCEPT !.m_pending_chars = <<>>, !.m_drawn_cursor = e.m_cursor]
    ELSE [e EXCEPT !.m_extra_forward_lines = 0,
                   !.m_pending_chars = <<>>,
                   !.m_refresh_needed = FALSE,
                   !.m_chars_inserted_in_the_middle = 0,
                   !.m_cached_prompt_valid = TRUE,
                   !.m_drawn_cursor = e.m_cursor]

\* void Editor::refresh_display(), m_was_resized being false.
RefreshDisplay(e) ==
    IF e.m_cached_prompt_valid /\ ~e.m_refresh_needed /\ e.m_pending_chars = <<>>
    THEN [e EXCEPT !.m_drawn_cursor = e.m_cursor]
    ELSE Redraw(OnDisplayRefresh(e))

\* The test of refresh_display for a pure cursor movement.
PureCursorMovement(e) ==
    e.m_cached_prompt_valid /\ ~e.m_refresh_needed /\ e.m_pending_chars = <<>>

\* What refresh_display, called in the state e, calls the hook for and
\* writes to the terminal, the hook being called before the test.
RefreshOutputHookFirst(e) ==
    (IF e.on_display_refresh THEN <<"on_display_refresh">> ELSE <<>>)
    \o (IF PureCursorMovement(e) THEN <<"move_absolute">>
        ELSE IF e.m_cached_prompt_valid /\ ~e.m_refresh_needed
                /\ e.m_cursor = Len(e.m_buffer)
        THEN <<"pending_chars">>
        ELSE <<"cleanup", "move_absolute", "prompt", "clear_to_end_of_line",
               "buffer", "reset_style", "move_absolute">>)

\* What refresh_display, called in the state e with m_was_resized false,
\* calls the hook for and writes to the terminal, in order: the move of
\* reposition_cursor alone; or the hook and then the pending characters; or
\* the hook and then the whole line after cleanup().
RefreshOutput(e) ==
    IF PureCursorMovement(e) THEN <<"move_absolute">>
    ELSE (IF e.on_display_refresh THEN <<"on_display_refresh">> ELSE <<>>)
         \o (IF e.m_cached_prompt_valid /\ ~e.m_refresh_needed
                 /\ e.m_cursor = Len(e.m_buffer)
             THEN <<"pending_chars">>
             ELSE <<"cleanup", "move_absolute", "prompt", "clear_to_end_of_line",
                    "buffer", "reset_style", "move_absolute">>)

\* void reset(), as the specification gives it: the buffer empty, the
\* cursors 0, the prompt cache invalid, a refresh needed.
Reset(e) ==
    [e EXCEPT !.m_buffer = <<>>,
              !.m_cursor = 0,
              !.m_drawn_cursor = 0,
              !.m_inline_search_cursor = 0,
              !.m_cached_prompt_valid = FALSE,
              !.m_refresh_needed = TRUE]

\* void finish(): the latch.
Finish(e) == [e EXCEPT !.m_finish = TRUE]

\* The operation mode initialize() finds when the configuration leaves it
\* unset: not a terminal, a terminal whose TERM starts with xterm, another.
DetectedMode(environment) ==
    IF ~environment.istty THEN "NonInteractive"
    ELSE IF environment.xterm THEN "Full"
    ELSE "NoEscapeSequences"

\* void Editor::initialize(): the attributes of the terminal are kept to
\* be restored, and ECHO and ICANON are cleared in Full mode.
Initialize(e) ==
    IF e.m_initialized THEN e
    ELSE LET mode == IF e.operation_mode = "Unset" THEN DetectedMode(e.environment)
                     ELSE e.operation_mode
         IN [e EXCEPT !.m_default_termios = e.tty,
                      !.operation_mode = mode,
                      !.tty = IF mode = "Full" THEN "raw" ELSE @,
                      !.m_initialized = TRUE]

\* void restore(), as the specification gives it: the attributes kept by
\* initialize are written back.
Restore(e) ==
    [e EXCEPT !.tty = e.m_default_termios,
              !.m_initialized = FALSE,
              !.teardown_log = @ \o <<"restore">>]

\* The answers of the terminal to vt_dsr: the position, a read that fails,
\* a read of no byte.
DsrResults == {"position", "error", "empty"}

\* Vector<size_t, 2> Editor::vt_dsr(), no input pending before it.
VtDsr(e, dsr) ==
    IF dsr = "error" THEN Finish([e EXCEPT !.m_input_error = "ReadFailure"])
    ELSE IF dsr = "empty" THEN Finish([e EXCEPT !.m_input_error = "Empty"])
    ELSE e

\* get_line(prompt) in Full mode up to loop.exec(): initialize, reset,
\* set_origin (which asks the terminal for the position), strip_styles(true),
\* the history cursor, the first refresh, the notifier.
GetLineFull(e, dsr) ==
    LET r == StripStyles(VtDsr(Reset([Initialize(e) EXCEPT !.m_is_editing = TRUE]), dsr),
                         TRUE)
    IN [RefreshDisplay([r EXCEPT !.m_history_cursor = Len(r.m_history)])
           EXCEPT !.m_notifier = <<[enabled |-> TRUE, event_mask |-> "Read"]>>,
                  !.teardown_log = <<>>]

\* String { line, (size_t)line_length, Chomp }: the line without the
\* newlines at its end.
RECURSIVE Chomp(_)
Chomp(line) ==
    IF line # <<>> /\ line[Len(line)] = LF
    THEN Chomp(SubSeq(line, 1, Len(line) - 1))
    ELSE line

\* get_line(prompt) in the modes NoEscapeSequences and NonInteractive, where
\* getline(&line, &size, stdin) gives gl: the editor after it and the value
\* returned.
GetLineBlocking(e, gl) ==
    LET i == [Initialize(e) EXCEPT !.m_is_editing = TRUE, !.teardown_log = <<>>]
    IN IF gl.line_length = -1
       THEN [editor |-> i,
             result |-> [is_error |-> TRUE,
                         error |-> IF gl.errno = "0" THEN "Eof" ELSE "ReadFailure",
                         value |-> <<>>]]
       ELSE [editor |-> Restore(i),
             result |-> [is_error |-> FALSE, error |-> NoError, value |-> Chomp(gl.line)]]

\* get_line(prompt) in Full mode with a terminal that answers.
GetLineEnter(e) == GetLineFull(e, "position")

(***************************************************************************)
(* The search editor of Ctrl-R: a second editor, whose hooks captured the  *)
(* editor that is searching.  While its get_line runs, the handler of the  *)
(* searching editor waits in the call; the search editor is kept in        *)
(* m_search_editor, and what its hooks captured in captured_this while its *)
(* code runs.                                                              *)
(***************************************************************************)
\* The keys the search editor has a callback for.
SearchEditorCallbacks == {ctrl(Chr_R), VERASE, ctrl(Chr_L), TAB}

\* m_key_callbacks.get(code_point) gives a callback and the callback
\* returns false: the key is not processed further.  Only the callback of
\* VERASE can return true, when the search offset is 0.
KeyCallbackHandles(e, code_point) ==
    /\ e.captured_this # <<>>
    /\ code_point \in e.m_key_callbacks
    /\ code_point = VERASE => e.captured_this[1].m_search_offset > 0

\* The callbacks registered with register_character_input_callback, when
\* they return false: ^R, VERASE, ^L and the tab.
KeyCallback(e, code_point) ==
    LET outer == e.captured_this[1]
    IN CASE code_point = ctrl(Chr_R) ->
              [e EXCEPT !.captured_this = <<[outer EXCEPT !.m_search_offset = Wrap(@ + 1)]>>,
                        !.m_refresh_needed = TRUE]
         [] code_point = VERASE ->
              [e EXCEPT !.captured_this = <<[outer EXCEPT !.m_search_offset = Wrap(@ - 1)]>>,
                        !.m_refresh_needed = TRUE]
         [] code_point = ctrl(Chr_L) ->
              [e EXCEPT !.captured_this =
                            <<RefreshDisplay([outer EXCEPT !.m_refresh_needed = TRUE])>>,
                        !.m_refresh_needed = TRUE]
         [] code_point = TAB ->
              Finish([e EXCEPT !.captured_this =
                                   <<[outer EXCEPT !.m_reset_buffer_on_search_end = FALSE]>>])

\* Editor::construct(Configuration { Configuration::Eager }) with the hook
\* and the callbacks of Ctrl-R, on the terminal of the searching editor.
SearchEditor(outer) ==
    [NewEditor(<<>>, TRUE) EXCEPT !.m_always_refresh = TRUE,
                                  !.operation_mode = "Unset",
                                  !.environment = outer.environment,
                                  !.tty = outer.tty,
                                  !.m_key_callbacks = SearchEditorCallbacks,
                                  !.on_display_refresh = TRUE,
                                  !.captured_this = <<outer>>]

\* The code of the search editor has run and its get_line has not returned:
\* the searching editor, as the hooks left it, holds the search editor.
Suspended(inner) ==
    [inner.captured_this[1] EXCEPT
        !.m_search_editor = <<[inner EXCEPT !.captured_this = <<>>]>>,
        !.tty = inner.tty]

\* The search editor as its notifier finds it: its hooks see the searching
\* editor and the terminal as they are now.
SearchEditorOf(outer) ==
    [outer.m_search_editor[1] EXCEPT !.captured_this = <<outer>>, !.tty = outer.tty]

\* if (code_point == ctrl('R')) up to m_search_editor->get_line(search_prompt),
\* whose first refresh calls the hook.
BeginSearch(e) ==
    IF e.m_is_searching THEN e
    ELSE Suspended(GetLineEnter(SearchEditor(
             [e EXCEPT !.m_is_searching = TRUE,
                       !.m_search_offset = 0,
                       !.m_pre_search_buffer = e.m_buffer,
                       !.m_pre_search_cursor = e.m_cursor,
                       !.m_notifier = <<[@[1] EXCEPT !.enabled = FALSE]>>])))

\* void end_search(), as the specification gives it: the search is over and
\* the buffer is what it was before the search, unless the tab accepted the
\* match.
EndSearch(e) ==
    LET r == [e EXCEPT !.m_is_searching = FALSE,
                       !.m_refresh_needed = TRUE,
                       !.m_search_offset = 0,
                       !.m_reset_buffer_on_search_end = TRUE]
    IN IF e.m_reset_buffer_on_search_end
       THEN [r EXCEPT !.m_buffer = e.m_pre_search_buffer,
                      !.m_cursor = e.m_pre_search_cursor]
       ELSE r

\* case InputState::GotEscape
HandleGotEscape(e, code_point) ==
    LET free == [e EXCEPT !.m_state = "Free"]
    IN CASE code_point = Chr_LBracket ->
              [e EXCEPT !.m_state = "GotEscapeFollowedByLeftBracket"]
         [] code_point = Chr_Dot ->
              IF e.m_history # <<>>
              THEN LET last_words == SplitView(e.m_history[Len(e.m_history)], 1, <<>>)
                   IN IF last_words # <<>>
                      THEN InsertString(free, last_words[Len(last_words)])
                      ELSE free
              ELSE free
         [] code_point = Chr_b -> DoCursorLeft(free, "Word")
         [] code_point = Chr_f -> DoCursorRight(free, "Word")
         [] code_point = BS -> BackwardDeleteWord(free, FALSE)
         [] code_point = Chr_d -> ForwardDeleteWord(free, FALSE)
         [] code_point \in {Chr_c, Chr_l, Chr_u} -> CaseWord(free, code_point)
         [] code_point = Chr_t -> TransposeWords(free)
         [] OTHER -> free

\* case InputState::GotEscapeFollowedByLeftBracket, but for 'Z', which goes
\* on to the tab handling.
HandleBracket(e, code_point) ==
    LET free == [e EXCEPT !.m_state = "Free", !.ctrl_held = FALSE]
        amount == IF e.ctrl_held THEN "Word" ELSE "Character"
    IN CASE code_point = Chr_O -> [e EXCEPT !.ctrl_held = TRUE]
         [] code_point = Chr_A -> DoSearchBackwards(free)
         [] code_point = Chr_B -> DoSearchForwards(free)
         [] code_point = Chr_D -> DoCursorLeft(free, amount)
         [] code_point = Chr_C -> DoCursorRight(free, amount)
         [] code_point = Chr_H ->
              [free EXCEPT !.m_cursor = 0, !.m_inline_search_cursor = 0,
                           !.m_search_offset = 0]
         [] code_point = Chr_F ->
              [free EXCEPT !.m_cursor = Len(e.m_buffer),
                           !.m_inline_search_cursor = Len(e.m_buffer),
                           !.m_search_offset = 0]
         [] code_point = Chr_3 ->
              [DoDelete(e) EXCEPT !.m_search_offset = 0,
                                  !.m_state = "ExpectTerminator",
                                  !.ctrl_held = FALSE]
         [] OTHER -> free

\* The mode a tab press asks for, from m_times_tab_pressed after its
\* increment.
CompletionMode(times_tab_pressed) ==
    IF times_tab_pressed = 1 THEN "CompletePrefix"
    ELSE IF times_tab_pressed = 2 THEN "ShowSuggestions"
    ELSE "CycleSuggestions"

\* The switch leaving m_times_tab_pressed alone unless the manager ends
\* the completion.
TabsAfterByPressesOnly(times_tab_pressed, new_completion_mode) ==
    IF new_completion_mode = "DontComplete" THEN 0 ELSE times_tab_pressed

\* switch (completion_result.new_completion_mode): m_times_tab_pressed
\* after it.
TabsAfter(times_tab_pressed, new_completion_mode) ==
    IF new_completion_mode = "DontComplete" THEN 0
    ELSE IF new_completion_mode = "CompletePrefix" THEN times_tab_pressed
    ELSE times_tab_pressed + 1

\* remove_at_index(index) called n times.
RECURSIVE RemoveTimes(_, _, _)
RemoveTimes(e, index, n) ==
    IF n = 0 THEN e ELSE RemoveTimes(RemoveAtIndex(e, index), index, n - 1)

\* The result of attempt_completion is applied: the region is removed at
\* the new cursor and the text inserted.
ApplyCompletion(e, new_cursor, attempt) ==
    InsertString([RemoveTimes(e, new_cursor, attempt.remove) EXCEPT
                     !.m_cursor = new_cursor,
                     !.m_inline_search_cursor = new_cursor,
                     !.m_refresh_needed = TRUE],
                 attempt.insert)

\* if (code_point == '\t' || reverse_tab), on_tab_complete being set: the
\* press is counted, the suggestions are looked for at the first press, the
\* mode is asked of the manager and its result applied; the completion is
\* over when fewer than two suggestions are left.  completion_log keeps the
\* mode asked and the mode the manager wants next, for each press since
\* m_times_tab_pressed was last 0.
HandleTab(e) ==
    LET pressed == e.m_times_tab_pressed + 1
        count == IF pressed = 1 THEN e.attempt.count ELSE e.suggestion_count
        asked == [new_completion_mode |-> e.attempt.new_completion_mode,
                  mode |-> CompletionMode(pressed)]
    IN [ApplyCompletion(e, e.m_cursor - e.attempt.remove, e.attempt) EXCEPT
           !.reverse_tab = FALSE,
           !.bell = @ \/ (pressed = 1 /\ count = 0),
           !.completion_log = (IF pressed = 1 THEN <<>> ELSE @) \o <<asked>>,
           !.suggestion_count = IF count < 2 THEN 0 ELSE count,
           !.m_times_tab_pressed =
               IF count < 2 THEN 0
               ELSE TabsAfter(pressed, e.attempt.new_completion_mode)]

\* VEOF on an empty buffer ending the session without recording Eof.
HandleEofWithoutError(e) ==
    IF ~e.m_always_refresh THEN Finish(e) ELSE e

\* if (code_point == m_termios.c_cc[VEOF] && m_buffer.is_empty()): "<EOF>"
\* is written; the error is recorded and the latch set unless the editor
\* always refreshes.
HandleEof(e) ==
    IF ~e.m_always_refresh
    THEN Finish([e EXCEPT !.m_input_error = "Eof", !.observed = @ \o <<"<EOF>">>])
    ELSE [e EXCEPT !.observed = @ \o <<"<EOF>">>]

\* The rest of the loop body of handle_read_event, reached in state Free
\* (and after ^[[Z) when no key callback stopped the key: ^N, ^P, the tab,
\* the control keys, the newline and the insertion.  The style of the last
\* suggestion, applied when another key follows a tab, is no style.
HandleFree(e, code_point) ==
    IF code_point = ctrl(Chr_N) THEN DoSearchForwards(e)
    ELSE IF code_point = ctrl(Chr_P) THEN DoSearchBackwards(e)
    ELSE LET r == [e EXCEPT !.m_search_offset = 0]
             t == [r EXCEPT !.m_times_tab_pressed = 0,
                            !.suggestion_count = IF r.m_times_tab_pressed > 0 THEN 0 ELSE @]
         IN IF code_point = TAB \/ r.reverse_tab
            THEN (IF r.on_tab_complete THEN HandleTab(r) ELSE r)
            ELSE IF code_point = VWERASE THEN EraseWord(t, FALSE)
            ELSE IF code_point = VKILL
            THEN [KillLoop(t, 0) EXCEPT !.m_cursor = 0, !.m_refresh_needed = TRUE]
            ELSE IF code_point = VEOF /\ t.m_buffer = <<>>
            THEN HandleEof(t)
            ELSE IF code_point = ctrl(Chr_A) THEN [t EXCEPT !.m_cursor = 0]
            ELSE IF code_point = ctrl(Chr_B) THEN DoCursorLeft(t, "Character")
            ELSE IF code_point = ctrl(Chr_D) THEN DoDelete(t)
            ELSE IF code_point = ctrl(Chr_E) THEN [t EXCEPT !.m_cursor = Len(t.m_buffer)]
            ELSE IF code_point = ctrl(Chr_F) THEN DoCursorRight(t, "Character")
            ELSE IF code_point = BS \/ code_point = VERASE THEN DoBackspace(t)
            ELSE IF code_point = ctrl(Chr_K) THEN KillToEnd(t)
            ELSE IF code_point = ctrl(Chr_L) THEN [t EXCEPT !.m_refresh_needed = TRUE]
            ELSE IF code_point = ctrl(Chr_R) THEN BeginSearch(t)
            ELSE IF code_point = ctrl(Chr_T)
            THEN (IF t.m_cursor > 0 /\ Len(t.m_buffer) >= 2
                  THEN LET cursor == IF t.m_cursor < Len(t.m_buffer)
                                     THEN t.m_cursor + 1 ELSE t.m_cursor
                       IN [t EXCEPT
                             !.m_cursor = cursor,
                             !.m_buffer = [@ EXCEPT ![cursor] = t.m_buffer[cursor - 1],
                                                    ![cursor - 1] = t.m_buffer[cursor]],
                             !.m_refresh_needed = TRUE]
                  ELSE t)
            ELSE IF code_point = LF THEN Finish(t)
            ELSE Insert(t, code_point)

\* m_key_callbacks.get(code_point) gives a callback the caller registered
\* with register_character_input_callback: it is called, which
\* callback_invoked keeps for the read in progress, and the key is processed
\* further when it returns true.  The callbacks of the caller leave the
\* editor as it is and all return callback_returns.
CallerCallback(e, code_point) ==
    IF e.callback_returns
    THEN HandleFree([e EXCEPT !.callback_invoked = Append(@, code_point)], code_point)
    ELSE [e EXCEPT !.callback_invoked = Append(@, code_point)]

\* The loop body with the test of the state ExpectTerminator before the
\* test code_point == 0: a NUL ends the delete key too.
HandleCodePointNulTerminates(e, code_point) ==
    IF e.m_state = "ExpectTerminator" THEN [e EXCEPT !.m_state = "Free"]
    ELSE IF code_point = 0 THEN e
    ELSE IF e.m_state = "GotEscape" THEN HandleGotEscape(e, code_point)
    ELSE IF e.m_state = "GotEscapeFollowedByLeftBracket" /\ code_point # Chr_Z
    THEN HandleBracket(e, code_point)
    ELSE IF e.m_state = "Free" /\ code_point = ESC THEN [e EXCEPT !.m_state = "GotEscape"]
    ELSE IF e.m_state = "Free" /\ KeyCallbackHandles(e, code_point)
    THEN KeyCallback(e, code_point)
    ELSE IF e.captured_this = <<>> /\ code_point \in e.m_key_callbacks
    THEN CallerCallback(IF e.m_state = "Free" THEN e
                        ELSE [e EXCEPT !.reverse_tab = TRUE, !.m_state = "Free",
                                       !.ctrl_held = FALSE],
                        code_point)
    ELSE HandleFree(IF e.m_state = "Free" THEN e
                    ELSE [e EXCEPT !.reverse_tab = TRUE, !.m_state = "Free",
                                   !.ctrl_held = FALSE],
                    code_point)

\* One turn of "for (auto code_point : input_view)" past the m_finish test.
HandleCodePoint(e, code_point) ==
    IF code_point = 0 THEN e
    ELSE IF e.m_state = "GotEscape" THEN HandleGotEscape(e, code_point)
    ELSE IF e.m_state = "GotEscapeFollowedByLeftBracket" /\ code_point # Chr_Z
    THEN HandleBracket(e, code_point)
    ELSE IF e.m_state = "ExpectTerminator" THEN [e EXCEPT !.m_state = "Free"]
    ELSE IF e.m_state = "Free" /\ code_point = ESC THEN [e EXCEPT !.m_state = "GotEscape"]
    ELSE IF e.m_state = "Free" /\ KeyCallbackHandles(e, code_point)
    THEN KeyCallback(e, code_point)
    ELSE IF e.captured_this = <<>> /\ code_point \in e.m_key_callbacks
    THEN CallerCallback(IF e.m_state = "Free" THEN e
                        ELSE [e EXCEPT !.reverse_tab = TRUE, !.m_state = "Free",
                                       !.ctrl_held = FALSE],
                        code_point)
    ELSE HandleFree(IF e.m_state = "Free" THEN e
                    ELSE [e EXCEPT !.reverse_tab = TRUE, !.m_state = "Free",
                                   !.ctrl_held = FALSE],
                    code_point)

\* The loop over the input without "if (m_finish) break".
RECURSIVE InputLoopPastFinish(_, _, _)
InputLoopPastFinish(e, input, consumed_code_points) ==
    IF input = <<>> \/ e.m_search_editor # <<>>
    THEN [editor |-> e, consumed_code_points |-> consumed_code_points, rest |-> input]
    ELSE InputLoopPastFinish(HandleCodePoint(e, Head(input)), Tail(input),
                             consumed_code_points + 1)

\* The for loop of handle_read_event over the code points of the input
\* view: the editor after it, with the number of code points consumed and
\* the code points not reached.  The loop stops where Ctrl-R calls get_line
\* of the search editor.
RECURSIVE InputLoop(_, _, _)
InputLoop(e, input, consumed_code_points) ==
    IF input = <<>> \/ e.m_finish \/ e.m_search_editor # <<>>
    THEN [editor |-> e, consumed_code_points |-> consumed_code_points, rest |-> input]
    ELSE InputLoop(HandleCodePoint(e, Head(input)), Tail(input), consumed_code_points + 1)

(***************************************************************************)
(* Interrupt and read events.                                              *)
(***************************************************************************)
\* handle_interrupt_event writing "^C" whatever the buffer holds.
InterruptObservedAlways(e) ==
    <<"^C">> \o (IF e.on_interrupt_handled THEN <<"on_interrupt_handled">> ELSE <<>>)

\* What handle_interrupt_event writes and calls before the refresh: "^C"
\* when the buffer is not empty, the hook when there is one.
InterruptObserved(e) ==
    (IF e.m_buffer # <<>> THEN <<"^C">> ELSE <<>>)
    \o (IF e.on_interrupt_handled THEN <<"on_interrupt_handled">> ELSE <<>>)

\* void Editor::handle_interrupt_event()
HandleInterruptEvent(e) ==
    RefreshDisplay([e EXCEPT !.m_was_interrupted = FALSE,
                             !.observed = @ \o InterruptObserved(e),
                             !.m_buffer = <<>>,
                             !.m_cursor = 0,
                             !.m_refresh_needed = TRUE])

\* What read(0, keybuf, sizeof(keybuf)) gives: bytes, or -1 with errno.
ReadData(bytes) == [errno |-> "0", bytes |-> bytes, nread |-> Len(bytes)]
ReadEINTR == [errno |-> "EINTR", bytes |-> <<>>, nread |-> -1]
ReadEIO == [errno |-> "EIO", bytes |-> <<>>, nread |-> -1]

\* The end of handle_read_event: the consumed code points leave the
\* incomplete data, what the loop did not reach stays.
ConsumeInput(l, data) ==
    IF l.editor.m_search_editor # <<>>
    THEN [l.editor EXCEPT !.input_view_rest = l.rest]
    ELSE [l.editor EXCEPT
             !.m_incomplete_data = SubSeq(data, l.consumed_code_points + 1, Len(data))]

\* The number of bytes of the UTF-8 sequence a byte starts: one for ASCII,
\* two for the lead bytes 0xC0..0xDF; the continuation bytes start none.
\* The model reads no longer sequences.
SequenceLength(byte) ==
    IF byte < 128 THEN 1 ELSE IF byte >= 192 /\ byte < 224 THEN 2 ELSE 0

\* Utf8View::validate(valid_bytes): the number of bytes at the start that
\* are whole valid sequences.
RECURSIVE ValidBytes(_)
ValidBytes(bytes) ==
    IF bytes = <<>> THEN 0
    ELSE IF SequenceLength(bytes[1]) = 1 THEN 1 + ValidBytes(Tail(bytes))
    ELSE IF /\ SequenceLength(bytes[1]) = 2
            /\ Len(bytes) >= 2
            /\ bytes[2] >= 128 /\ bytes[2] < 192
    THEN 2 + ValidBytes(SubSeq(bytes, 3, Len(bytes)))
    ELSE 0

\* The code points a Utf8View over valid bytes gives.
RECURSIVE Utf8Decode(_)
Utf8Decode(bytes) ==
    IF bytes = <<>> THEN <<>>
    ELSE IF bytes[1] < 128 THEN <<bytes[1]>> \o Utf8Decode(Tail(bytes))
    ELSE <<(bytes[1] % 32) * 64 + (bytes[2] % 64)>>
         \o Utf8Decode(SubSeq(bytes, 3, Len(bytes)))

\* "Discard starting bytes until they make sense as utf-8."
RECURSIVE DiscardInvalidStart(_)
DiscardInvalidStart(bytes) ==
    IF bytes = <<>> \/ ValidBytes(bytes) > 0 THEN bytes
    ELSE DiscardInvalidStart(Tail(bytes))

\* Utf8View input_view over the valid bytes of the incomplete data.
InputView(data) == Utf8Decode(SubSeq(data, 1, ValidBytes(data)))

\* The loop over the code points of the valid bytes of the incomplete data,
\* which then loses as many bytes at its start as code points were
\* consumed.
ReadInput(e, data) ==
    ConsumeInput(InputLoop([e EXCEPT !.m_incomplete_data = data,
                                     !.reverse_tab = FALSE,
                                     !.ctrl_held = FALSE],
                           InputView(data), 0),
                 data)

\* void Editor::handle_read_event(); rd is what read() gives when it is
\* called, which it is only when no incomplete data is left over.
HandleReadEvent(e0, rd) ==
    LET has_read == e0.m_incomplete_data = <<>>
        nread == IF has_read THEN rd.nread ELSE 0
        e == [e0 EXCEPT !.bell = FALSE, !.callback_invoked = <<>>]
    IN IF nread < 0
       THEN (IF rd.errno = "EINTR"
             THEN (IF ~e.m_was_interrupted
                   THEN (IF e.m_was_resized THEN e ELSE Finish(e))
                   ELSE HandleInterruptEvent(e))
             ELSE Finish([e EXCEPT !.m_input_error = "ReadFailure"]))
       ELSE LET data == e.m_incomplete_data \o (IF has_read THEN rd.bytes ELSE <<>>)
            IN IF Len(data) = 0
               THEN Finish([e EXCEPT !.m_input_error = "Empty"])
               ELSE ReadInput(e, DiscardInvalidStart(data))

\* String Editor::line(): the buffer as a string.
Line(e) == e.m_buffer

\* The handler has returned: its locals, the value its last search returned
\* and the bell it rang are gone, and so is what it read past the buffer.
Returned(e) ==
    [e EXCEPT !.ctrl_held = FALSE, !.reverse_tab = FALSE,
              !.search_result = FALSE, !.bell = FALSE, !.stale_storage = <<>>,
              !.observed = <<>>, !.attempt = NoAttempt]

\* if (m_was_interrupted) handle_interrupt_event();
InterruptFirst(e) ==
    IF e.m_was_interrupted THEN HandleInterruptEvent(e) ELSE e

\* if (m_always_refresh) m_refresh_needed = true; refresh_display();
RefreshAfterRead(e) ==
    RefreshDisplay([e EXCEPT !.m_refresh_needed = @ \/ e.m_always_refresh])

\* The end of the session removing the notifier inside the handler.
QuitIfFinishedRemovingNotifier(e) ==
    IF e.m_finish
    THEN [Restore([e EXCEPT !.teardown_log = @ \o <<"newline">>]) EXCEPT
             !.m_finish = FALSE,
             !.m_drawn_cursor = Len(e.m_buffer),
             !.m_returned_line = Line(e),
             !.m_buffer = <<>>,
             !.m_is_editing = FALSE,
             !.m_notifier = <<>>,
             !.deferred_invoke = TRUE,
             !.teardown_log = @ \o <<"remove_child">>]
    ELSE e

\* if (m_finish) { ... }: the latch is cleared, the newline is written, the
\* line is kept for get_line to return, the buffer is cleared, the terminal
\* is restored, the notifier is masked and the deferred invocation is left
\* to the event loop.
QuitIfFinished(e) ==
    IF e.m_finish
    THEN [Restore([e EXCEPT !.teardown_log = @ \o <<"newline">>]) EXCEPT
             !.m_finish = FALSE,
             !.m_drawn_cursor = Len(e.m_buffer),
             !.m_returned_line = Line(e),
             !.m_buffer = <<>>,
             !.m_is_editing = FALSE,
             !.m_notifier = <<[@[1] EXCEPT !.event_mask = "None"]>>,
             !.deferred_invoke = TRUE,
             !.teardown_log = @ \o <<"set_event_mask">>]
    ELSE e

\* The deferred invocation of the end of the session: the notifier is
\* removed and the event loop quits.
DeferredInvoke(e) ==
    [e EXCEPT !.m_notifier = <<>>,
              !.deferred_invoke = FALSE,
              !.teardown_log = @ \o <<"remove_child", "quit">>]

\* The rest of on_ready_to_read after handle_read_event: the refresh and,
\* once the latch is set, the end of the session.  Nothing of it runs
\* while handle_read_event waits for the search editor.
AfterReadEvent(e) ==
    IF e.m_search_editor # <<>> THEN e
    ELSE QuitIfFinished(Returned(RefreshAfterRead(e)))

\* m_notifier->on_ready_to_read of get_line: the interrupt, the read event,
\* the refresh and, once the latch is set, the end of the session.
OnReadyToRead(e0, rd) ==
    AfterReadEvent(HandleReadEvent(InterruptFirst(e0), rd))

\* get_line returning the line whatever m_input_error holds.
GetLineResultLineOnly(e) ==
    [is_error |-> FALSE, error |-> NoError, value |-> e.m_returned_line]

\* The value get_line returns when the loop has quit.
GetLineResult(e) ==
    IF e.m_input_error # NoError
    THEN [is_error |-> TRUE, error |-> e.m_input_error, value |-> <<>>]
    ELSE [is_error |-> FALSE, error |-> NoError, value |-> e.m_returned_line]

\* The return of the search editor without m_notifier->set_enabled(true).
SearchOverNotifierOff(inner) ==
    [inner.captured_this[1] EXCEPT
        !.m_search_editor = <<>>,
        !.m_is_searching = FALSE,
        !.m_search_offset = 0,
        !.tty = inner.tty,
        !.input_view_rest = <<>>]

\* The searching editor when get_line of its search editor has returned:
\* the search editor is removed and the notifier enabled again.
SearchOver(inner) ==
    [inner.captured_this[1] EXCEPT
        !.m_search_editor = <<>>,
        !.m_is_searching = FALSE,
        !.m_search_offset = 0,
        !.m_notifier = <<[@[1] EXCEPT !.enabled = TRUE]>>,
        !.tty = inner.tty,
        !.input_view_rest = <<>>]

\* The number of code points of a line as the terminal shows it: the lines
\* of this model hold no escape sequence and no newline.
TotalLength(line) == Len(line)

\* The end of a search that looks at the tab alone.
SearchEndedByTabOnly(outer, line) ==
    IF ~outer.m_reset_buffer_on_search_end
    THEN EndSearch(outer)
    ELSE Finish(outer)

\* What follows a search that returned a line: the search ends and the
\* editing goes on when the tab ended the search or the line is empty,
\* else the latch is set.
SearchEnded(outer, line) ==
    IF ~outer.m_reset_buffer_on_search_end \/ TotalLength(line) = 0
    THEN EndSearch(outer)
    ELSE Finish(outer)

\* The loop of handle_read_event goes on with the code points that follow
\* the Ctrl-R.
ContinueInput(outer, rest) ==
    ConsumeInput(InputLoop(outer, rest,
                           Len(InputView(outer.m_incomplete_data)) - Len(rest)),
                 outer.m_incomplete_data)

\* handle_read_event from the return of m_search_editor->get_line on,
\* without "m_input_error = search_string_result.error()": the latch is set
\* and the error is dropped.
ResumeReadEventErrorDropped(inner) ==
    IF GetLineResult(inner).is_error
    THEN Finish(SearchOver(inner))
    ELSE ContinueInput(SearchEnded(SearchOver(inner), GetLineResult(inner).value),
                       inner.captured_this[1].input_view_rest)

\* handle_read_event from the return of m_search_editor->get_line on: an
\* error of the search editor is taken over, the latch is set and the
\* handler returns without consuming its input.
ResumeReadEvent(inner) ==
    IF GetLineResult(inner).is_error
    THEN Finish([SearchOver(inner) EXCEPT !.m_input_error = GetLineResult(inner).error])
    ELSE ContinueInput(SearchEnded(SearchOver(inner), GetLineResult(inner).value),
                       inner.captured_this[1].input_view_rest)

\* The searching editor after an event of the search editor: the search
\* editor goes on, or its session has ended, its loop quits, its get_line
\* returns and on_ready_to_read of the searching editor runs to its end.
AfterSearchEvent(inner) ==
    IF inner.m_is_editing THEN Suspended(inner)
    ELSE AfterReadEvent(ResumeReadEvent(DeferredInvoke(inner)))

\* add_to_history without take_first().
AddToHistoryKeepingAll(history, capacity, line) ==
    IF line = <<>> THEN history ELSE Append(history, line)

\* void Editor::add_to_history(const String& line)
AddToHistoryWith(history, capacity, line) ==
    IF line = <<>> THEN history
    ELSE Append(IF Len(history) + 1 > capacity THEN Tail(history) ELSE history, line)

(***************************************************************************)
(* The state.  editor is the Line::Editor object; get_line_result is what  *)
(* the last get_line returned; keys is the log of the code points read in  *)
(* the session (kept by the recall specification only); history_log is the *)
(* log of the lines given to add_to_history; last_call describes the last  *)
(* single operation applied by the specifications of single operations.    *)
(***************************************************************************)
VARIABLES editor, get_line_result, keys, history_log, last_call

vars == <<editor, get_line_result, keys, history_log, last_call>>

\* The capacity of the history (m_history_capacity).
HistoryCapacity == 3

NoResult == [is_error |-> FALSE, error |-> "NotReturned", value |-> <<>>]
NoCall == [op |-> "none"]

\* The code points the user types into the buffer.
Printables == {Chr_x, Chr_X, SPACE}

\* The histories the recall sessions and the searches start with.
Histories ==
    { <<>>,
      << <<Chr_x>> >>,
      << <<Chr_x, SPACE, Chr_X>>, <<Chr_x, Chr_x>> >>,
      << <<Chr_X>>, <<Chr_x, Chr_X>>, <<Chr_x>> >> }

\* The histories the editing sessions start with.
SessionHistories ==
    { <<>>,
      << <<Chr_x, SPACE, Chr_X>>, <<Chr_x, Chr_x>> >> }

\* The code points a read past the end of the buffer can find.
StaleCodePoints == {Chr_x, SPACE}

\* The keys of the Free state: the printables, the escape, the control keys.
FreeKeys ==
    Printables \cup
    {ESC, LF, TAB, BS, VERASE, VWERASE, VKILL, VEOF,
     ctrl(Chr_A), ctrl(Chr_B), ctrl(Chr_E), ctrl(Chr_F), ctrl(Chr_K), ctrl(Chr_L),
     ctrl(Chr_N), ctrl(Chr_P), ctrl(Chr_T)}

\* The code points a terminal sends after an escape.
EscapeKeys ==
    {Chr_LBracket, Chr_Dot, Chr_b, Chr_f, BS, Chr_d, Chr_c, Chr_l, Chr_u, Chr_t, Chr_x}

\* The code points a terminal sends after ESC [.
BracketKeys == {Chr_O, Chr_A, Chr_B, Chr_C, Chr_D, Chr_H, Chr_F, Chr_Z, Chr_3, Chr_x}

\* The code points that follow ESC [ 3.
TerminatorKeys == {Chr_Tilde, Chr_x}

KeysIn(state) ==
    CASE state = "Free" -> FreeKeys
      [] state = "GotEscape" -> EscapeKeys
      [] state = "GotEscapeFollowedByLeftBracket" -> BracketKeys
      [] state = "ExpectTerminator" -> TerminatorKeys

\* The reads of several code points the model delivers in state Free: the
\* escape sequences in one piece, and input that follows a newline or ^[[Z.
Chunks ==
    { <<ESC, Chr_LBracket, Chr_A>>,
      <<ESC, Chr_LBracket, Chr_B>>,
      <<ESC, Chr_LBracket, Chr_O, Chr_D>>,
      <<ESC, Chr_LBracket, Chr_O, Chr_C>>,
      <<ESC, Chr_LBracket, Chr_3, Chr_Tilde>>,
      <<ESC, Chr_LBracket, Chr_Z, Chr_x>>,
      <<LF, Chr_x>> }

\* The offsets the model follows: small ones, and wrapped ones near the top.
Followed(x, max) == x <= max \/ x >= SizeModulus - max

AnchoredSpans(e) == SpansOf(e.m_anchored_spans_starting)

\* The bounds on a state of the model.
WithinBounds(e) ==
    /\ Len(e.m_buffer) <= MaxLen
    /\ Followed(e.m_search_offset, MaxSearchOffset)
    /\ e.m_search_editor # <<>> => Len(e.m_search_editor[1].m_buffer) <= MaxLen
    /\ \A sp \in AnchoredSpans(e) : Followed(sp[1], MaxOffset) /\ Followed(sp[2], MaxOffset)

(***************************************************************************)
(* The actions.                                                            *)
(***************************************************************************)
\* The caller calls get_line on the editor it constructed: the session starts.
GetLine ==
    /\ ~editor.m_is_editing
    /\ editor.m_notifier = <<>>
    /\ get_line_result = NoResult
    /\ editor' = GetLineEnter(editor)
    /\ get_line_result' = NoResult
    /\ UNCHANGED <<keys, history_log, last_call>>

\* The editor is e after the notifier fired.
Delivered(e) ==
    /\ WithinBounds(e)
    /\ editor' = e
    /\ get_line_result' = get_line_result

\* The event loop runs the deferred invocation, loop.exec() returns and
\* get_line returns m_input_error or m_returned_line.
LoopQuits ==
    /\ editor.deferred_invoke
    /\ editor' = DeferredInvoke(editor)
    /\ get_line_result' = GetLineResult(editor)
    /\ UNCHANGED <<keys, history_log, last_call>>

\* The input holds a key that recalls history: the last byte of arrow-up
\* or arrow-down, ^N or ^P.
MayRecall(bytes) ==
    \E i \in 1..Len(bytes) : bytes[i] \in {Chr_A, Chr_B, ctrl(Chr_N), ctrl(Chr_P)}

\* The code points of the search phrase that lie past the end of the buffer:
\* m_inline_search_cursor stays where it was when VKILL, ^K or an interrupt
\* shortens the buffer.
StaleNeeded(e) ==
    e.m_inline_search_cursor - (IF e.m_was_interrupted THEN 0 ELSE Len(e.m_buffer))

\* What the reads past the end of the buffer can find.
StaleReads(e, rd) ==
    IF MayRecall(rd.bytes) /\ StaleNeeded(e) > 0
    THEN [1..StaleNeeded(e) -> StaleCodePoints]
    ELSE {<<>>}

\* The notifier is there, enabled and waits for input.
Notifies(e) ==
    /\ e.m_notifier # <<>>
    /\ e.m_notifier[1].enabled
    /\ e.m_notifier[1].event_mask = "Read"

\* The notifier fires and read() gives rd.
Ready(rd) ==
    /\ Notifies(editor)
    /\ \E stale \in StaleReads(editor, rd) :
          Delivered(OnReadyToRead([editor EXCEPT !.stale_storage = stale], rd))

\* One code point is read.
ReadKey ==
    /\ \E code_point \in KeysIn(editor.m_state) :
           /\ editor.m_incomplete_data = <<>>
           /\ Ready(ReadData(<<code_point>>))
    /\ UNCHANGED <<keys, history_log, last_call>>

\* Several code points are read at once.
ReadChunk ==
    /\ \E bytes \in Chunks :
           /\ editor.m_incomplete_data = <<>>
           /\ editor.m_state = "Free"
           /\ Ready(ReadData(bytes))
    /\ UNCHANGED <<keys, history_log, last_call>>

\* read() fails (EINTR, or another error) or gives no byte.
ReadFails ==
    /\ \E rd \in {ReadEINTR, ReadEIO, ReadData(<<>>)} :
           /\ editor.m_incomplete_data = <<>>
           /\ Ready(rd)
    /\ UNCHANGED <<keys, history_log, last_call>>

\* SIGINT: void interrupted(), the flag is set while a line is edited.
Interrupted ==
    /\ editor.m_is_editing
    /\ ~editor.m_was_interrupted
    /\ editor' = [editor EXCEPT !.m_was_interrupted = TRUE]
    /\ UNCHANGED <<get_line_result, keys, history_log, last_call>>

Init ==
    /\ \E history \in SessionHistories, searching_backwards \in BOOLEAN :
           editor = NewEditor(history, searching_backwards)
    /\ get_line_result = NoResult
    /\ keys = <<>>
    /\ history_log = <<>>
    /\ last_call = NoCall

Next ==
    \/ GetLine
    \/ ReadKey
    \/ ReadChunk
    \/ ReadFails
    \/ Interrupted
    \/ LoopQuits

Spec == Init /\ [][Next]_vars

\* C1: while a line is edited, after every read event and every interrupt,
\* the cursor lies in the buffer: 0 <= m_cursor <= |m_buffer|; when the
\* session has ended it lies in the line the buffer held when it ended.
CursorInBuffer ==
    /\ 0 <= editor.m_cursor
    /\ editor.m_is_editing => editor.m_cursor <= Len(editor.m_buffer)
    /\ ~editor.m_is_editing => editor.m_cursor <= Len(editor.m_returned_line)

CursorInBufferWitness ==
    /\ editor.m_is_editing
    /\ Len(editor.m_buffer) >= 2
    /\ editor.m_cursor = Len(editor.m_buffer)

\* C33, as claimed: while a line is edited the inline search cursor lies in
\* the buffer, m_inline_search_cursor <= |m_buffer|, so that the prefix the
\* history recall takes, the first m_inline_search_cursor code points of
\* the buffer, ends in the buffer.
SearchCursorInBuffer ==
    editor.m_is_editing => editor.m_inline_search_cursor <= Len(editor.m_buffer)


(***************************************************************************)
(* Single operations on the anchored spans: an editor in a session with a  *)
(* buffer, a cursor and anchored spans inside the buffer, to which one     *)
(* insert, remove_at_index or forced overlap removal is applied.           *)
(* last_call keeps the operation and the editor before it.                 *)
(***************************************************************************)
\* The buffer of n code points cp.
RECURSIVE Repeat(_, _)
Repeat(cp, n) == IF n = 0 THEN <<>> ELSE <<cp>> \o Repeat(cp, n - 1)

\* The spans [s, e) inside a buffer of len code points: 0 <= s < e <= len.
SpansInside(len) == {sp \in (0..len) \X (0..len) : sp[1] < sp[2]}

\* stylize called for each span of a set.
RECURSIVE StylizeAll(_, _, _)
StylizeAll(e, spans, style) ==
    IF spans = {} THEN e
    ELSE LET sp == FirstSpan(spans)
         IN StylizeAll(Stylize(e, sp[1], sp[2], style), spans \ {sp}, style)

\* An editor in a session whose buffer holds len code points, with the
\* cursor at cursor and the spans anchored, the display refreshed.
EditorWith(len, cursor, spans) ==
    RefreshDisplay(
        StylizeAll([GetLineEnter(NewEditor(<<>>, TRUE)) EXCEPT
                       !.m_buffer = Repeat(Chr_x, len),
                       !.m_cursor = cursor,
                       !.m_inline_search_cursor = cursor],
                   spans, AnchoredUnderline))

SpansInit ==
    /\ \E len \in 0..MaxLen :
         \E cursor \in 0..len :
           \E spans \in SUBSET SpansInside(len) :
              /\ Cardinality(spans) <= MaxSpans
              /\ editor = EditorWith(len, cursor, spans)
    /\ get_line_result = NoResult
    /\ keys = <<>>
    /\ history_log = <<>>
    /\ last_call = NoCall

\* insert(cp) at the cursor.
InsertCall ==
    /\ last_call = NoCall
    /\ \E cp \in {Chr_x} :
         /\ editor' = Insert(editor, cp)
         /\ last_call' = [op |-> "insert", index |-> editor.m_cursor, before |-> editor]
    /\ UNCHANGED <<get_line_result, keys, history_log>>

\* remove_at_index(index), index < |buffer|.
RemoveCall ==
    /\ last_call = NoCall
    /\ \E index \in 0..(Len(editor.m_buffer) - 1) :
         /\ editor' = RemoveAtIndex(editor, index)
         /\ last_call' = [op |-> "remove", index |-> index, before |-> editor]
    /\ UNCHANGED <<get_line_result, keys, history_log>>

\* readjust_anchored_styles(hint_index, ForcedOverlapRemoval), the hint
\* being the start of a suggestion in the buffer.
ForcedOverlapRemovalCall ==
    /\ last_call = NoCall
    /\ \E hint_index \in 0..Len(editor.m_buffer) :
         /\ editor' = ReadjustAnchoredStyles(editor, hint_index, "ForcedOverlapRemoval")
         /\ last_call' = [op |-> "forced", index |-> hint_index, before |-> editor]
    /\ UNCHANGED <<get_line_result, keys, history_log>>

SpansNext ==
    \/ InsertCall
    \/ RemoveCall
    \/ ForcedOverlapRemovalCall

SpecSpans == SpansInit /\ [][SpansNext]_vars

\* The style an anchored span has in the by-start table.
AnchoredStyle(e, sp) == e.m_anchored_spans_starting[sp[1]][sp[2]]

\* The span is in the by-start and in the by-end table, with the style.
HasAnchored(e, sp, style) ==
    /\ sp[1] \in DOMAIN e.m_anchored_spans_starting
    /\ sp[2] \in DOMAIN e.m_anchored_spans_starting[sp[1]]
    /\ e.m_anchored_spans_starting[sp[1]][sp[2]] = style
    /\ sp[2] \in DOMAIN e.m_anchored_spans_ending
    /\ sp[1] \in DOMAIN e.m_anchored_spans_ending[sp[2]]
    /\ e.m_anchored_spans_ending[sp[2]][sp[1]] = style

\* The positions a span covers.
Covered(sp) == {p \in 0..MaxOffset + 1 : sp[1] <= p /\ p < sp[2]}

\* Where the code point at position p is after the edit.
MovedTo(p, op, index) ==
    IF op = "insert" THEN (IF p < index THEN p ELSE p + 1)
    ELSE (IF p < index THEN p ELSE p - 1)

\* The positions of the old code points that are still there after the edit.
Surviving(len, op, index) ==
    {p \in 0..(len - 1) : ~(op = "remove" /\ p = index)}

\* C3, as claimed: after one insertion or removal every anchored span covers
\* exactly the surviving code points it covered before, and it is dropped
\* only when all its text was removed.
SpanFollowsText ==
    last_call.op \in {"insert", "remove"} =>
        LET before == last_call.before
            len == Len(before.m_buffer)
            moved(p) == MovedTo(p, last_call.op, last_call.index)
            old == Surviving(len, last_call.op, last_call.index)
        IN \A sp \in AnchoredSpans(before) :
             LET text == {moved(p) : p \in Covered(sp) \cap old}
             IN IF text = {}
                THEN TRUE
                ELSE \E to \in AnchoredSpans(editor) :
                        /\ AnchoredStyle(editor, to) = AnchoredStyle(before, sp)
                        /\ Covered(to) \cap {moved(p) : p \in old} = text

\* C4: removing the code point at h < s turns [s, e) into [s-1, e-1);
\* inserting at h with s < h < e turns [s, e) into [s, e+1).
ShiftAsInScenario ==
    /\ last_call.op = "remove" =>
         \A sp \in AnchoredSpans(last_call.before) :
            last_call.index < sp[1] =>
               HasAnchored(editor, <<sp[1] - 1, sp[2] - 1>>,
                           AnchoredStyle(last_call.before, sp))
    /\ last_call.op = "insert" =>
         \A sp \in AnchoredSpans(last_call.before) :
            (sp[1] < last_call.index /\ last_call.index < sp[2]) =>
               /\ HasAnchored(editor, <<sp[1], sp[2] + 1>>,
                              AnchoredStyle(last_call.before, sp))
               /\ (<<sp[1], sp[2]>> \in AnchoredSpans(editor) =>
                     <<sp[1], sp[2] - 1>> \in AnchoredSpans(last_call.before))

ShiftAsInScenarioWitness ==
    \/ /\ last_call.op = "remove"
       /\ \E sp \in AnchoredSpans(last_call.before) : last_call.index < sp[1]
    \/ /\ last_call.op = "insert"
       /\ \E sp \in AnchoredSpans(last_call.before) :
             sp[1] < last_call.index /\ last_call.index < sp[2]


\* C5, as claimed: an insertion at c increases every anchored span endpoint
\* >= c by one, the end of a span [s, c) included.
EveryEndpointFromCursorShifts ==
    last_call.op = "insert" =>
        LET c == last_call.index
            shifted(x) == IF x >= c THEN x + 1 ELSE x
        IN \A sp \in AnchoredSpans(last_call.before) :
              HasAnchored(editor, <<shifted(sp[1]), shifted(sp[2])>>,
                          AnchoredStyle(last_call.before, sp))

\* Where insert at c puts the span [s, e): a start >= c and an end > c move.
InsertedImage(sp, c) ==
    << IF sp[1] >= c THEN sp[1] + 1 ELSE sp[1],
       IF sp[2] > c THEN sp[2] + 1 ELSE sp[2] >>

\* C5, amended: an insertion at c increases every span start >= c and every
\* span end > c by one; an end equal to c stays, so [s, c) stays [s, c), and
\* the spans after the insertion are exactly these.
EndAtCursorStays ==
    last_call.op = "insert" =>
        LET c == last_call.index
        IN /\ \A sp \in AnchoredSpans(last_call.before) :
                 HasAnchored(editor, InsertedImage(sp, c),
                             AnchoredStyle(last_call.before, sp))
           /\ AnchoredSpans(editor) =
                 {InsertedImage(sp, c) : sp \in AnchoredSpans(last_call.before)}

EndAtCursorStaysWitness ==
    /\ last_call.op = "insert"
    /\ \E sp \in AnchoredSpans(last_call.before) :
          /\ sp[2] = last_call.index
          /\ sp \in AnchoredSpans(editor)

\* C6, as claimed: a forced overlap removal at h removes exactly the anchored
\* spans with s <= h < e and leaves every other span where it was.
ForcedRemovalOnlyRemoves ==
    last_call.op = "forced" =>
        LET h == last_call.index
            kept == {sp \in AnchoredSpans(last_call.before) :
                        ~(sp[1] <= h /\ h < sp[2])}
        IN /\ AnchoredSpans(editor) = kept
           /\ \A sp \in kept :
                 HasAnchored(editor, sp, AnchoredStyle(last_call.before, sp))


(***************************************************************************)
(* A session in which the application anchors spans with stylize() while   *)
(* the user edits the line.                                                *)
(***************************************************************************)
\* The keys of the styled session: the operations that change the buffer.
StyledKeys ==
    {Chr_x, BS, ctrl(Chr_D), ctrl(Chr_A), ctrl(Chr_F), VKILL, ctrl(Chr_K), VWERASE, LF}

StyledChunks ==
    { <<ESC, Chr_LBracket, Chr_A>>,
      <<ESC, Chr_LBracket, Chr_B>>,
      <<ESC, BS>>,
      <<ESC, Chr_d>> }

\* stylize({start, end}, style) with an anchored style, the span inside the
\* buffer: 0 <= start < end <= |buffer|.
StylizeAnchored ==
    /\ editor.m_is_editing
    /\ Cardinality(AnchoredSpans(editor)) < MaxSpans
    /\ \E sp \in SpansInside(Len(editor.m_buffer)) :
          editor' = Stylize(editor, sp[1], sp[2], AnchoredUnderline)
    /\ UNCHANGED <<get_line_result, keys, history_log, last_call>>

StyledReadKey ==
    /\ \E code_point \in StyledKeys :
           /\ editor.m_incomplete_data = <<>>
           /\ Ready(ReadData(<<code_point>>))
    /\ UNCHANGED <<keys, history_log, last_call>>

StyledReadChunk ==
    /\ \E bytes \in StyledChunks :
           /\ editor.m_incomplete_data = <<>>
           /\ Ready(ReadData(bytes))
    /\ UNCHANGED <<keys, history_log, last_call>>

StyledInit ==
    /\ \E history \in {<<>>, <<<<Chr_x>>>>} :
           editor = NewEditor(history, TRUE)
    /\ get_line_result = NoResult
    /\ keys = <<>>
    /\ history_log = <<>>
    /\ last_call = NoCall

StyledNext ==
    \/ GetLine
    \/ StylizeAnchored
    \/ StyledReadKey
    \/ StyledReadChunk
    \/ Interrupted
    \/ LoopQuits

SpecStyled == StyledInit /\ [][StyledNext]_vars

\* C2, as claimed: while a line is edited every anchored span [s, e) lies in
\* the buffer, 0 <= s < e <= |m_buffer|, whatever changed the buffer.
AnchoredSpansInBuffer ==
    editor.m_is_editing =>
        \A sp \in AnchoredSpans(editor) :
            0 <= sp[1] /\ sp[1] < sp[2] /\ sp[2] <= Len(editor.m_buffer)


(***************************************************************************)
(* The application adds lines to the history; history_log keeps the lines  *)
(* passed to add_to_history, in call order.                                *)
(***************************************************************************)
\* The number of add_to_history calls followed.
MaxCalls == 5

HistoryLines == {<<>>, <<Chr_x>>, <<Chr_X>>, <<Chr_x, Chr_x>>}

HistoryInit ==
    /\ editor = NewEditor(<<>>, TRUE)
    /\ get_line_result = NoResult
    /\ keys = <<>>
    /\ history_log = <<>>
    /\ last_call = NoCall

\* add_to_history(line)
AddToHistory ==
    /\ Len(history_log) < MaxCalls
    /\ \E line \in HistoryLines :
          /\ editor' = [editor EXCEPT
                           !.m_history = AddToHistoryWith(@, HistoryCapacity, line)]
          /\ history_log' = Append(history_log, line)
    /\ UNCHANGED <<get_line_result, keys, last_call>>

HistoryNext == AddToHistory

SpecHistory == HistoryInit /\ [][HistoryNext]_vars

IsNonEmptyLine(line) == line # <<>>

\* The last n elements of a sequence.
LastOf(s, n) == SubSeq(s, Len(s) - n + 1, Len(s))

\* C7: the history holds at most capacity entries, and they are the most
\* recent min(n, capacity) non-empty lines passed to add_to_history, in call
\* order.
HistoryIsBoundedFifo ==
    LET passed == SelectSeq(history_log, IsNonEmptyLine)
    IN /\ Len(editor.m_history) <= HistoryCapacity
       /\ editor.m_history = LastOf(passed, Min(Len(passed), HistoryCapacity))

HistoryIsBoundedFifoWitness ==
    /\ Len(SelectSeq(history_log, IsNonEmptyLine)) > HistoryCapacity
    /\ \E i \in 1..Len(history_log) : history_log[i] = <<>>
    /\ Len(editor.m_history) = HistoryCapacity

(***************************************************************************)
(* History recall in a session: the user types, presses arrow-up and       *)
(* arrow-down, and ends the line; keys keeps the code points read.         *)
(***************************************************************************)
\* The number of code points of a recall session.
MaxKeys == 10

ArrowUp == <<ESC, Chr_LBracket, Chr_A>>
ArrowDown == <<ESC, Chr_LBracket, Chr_B>>

RecallInputs == {ArrowUp, ArrowDown, <<LF>>, <<Chr_x>>}

RecallInit ==
    /\ \E history \in Histories, searching_backwards \in BOOLEAN :
           editor = NewEditor(history, searching_backwards)
    /\ get_line_result = NoResult
    /\ keys = <<>>
    /\ history_log = <<>>
    /\ last_call = NoCall

\* One key of the recall session is read.
RecallRead ==
    /\ \E bytes \in RecallInputs :
          /\ Len(keys) + Len(bytes) <= MaxKeys
          /\ Ready(ReadData(bytes))
          /\ keys' = keys \o bytes
    /\ UNCHANGED <<history_log, last_call>>

RecallNext ==
    \/ GetLine
    \/ RecallRead
    \/ LoopQuits

SpecRecall == RecallInit /\ [][RecallNext]_vars

\* Arrow-up pressed k times.
RECURSIVE Ups(_)
Ups(k) == IF k = 0 THEN <<>> ELSE ArrowUp \o Ups(k - 1)

\* C8: from an empty buffer and a history of n entries, arrow-up k times
\* (1 <= k <= n) and newline make get_line return the k-th newest entry,
\* with no error.
RecallReturnsKthNewest ==
    \A k \in 1..Len(editor.m_history) :
        (get_line_result # NoResult /\ keys = Ups(k) \o <<LF>>) =>
            get_line_result =
                [is_error |-> FALSE, error |-> NoError,
                 value |-> editor.m_history[Len(editor.m_history) - k + 1]]

RecallReturnsKthNewestWitness ==
    /\ get_line_result # NoResult
    /\ Len(editor.m_history) >= 3
    /\ keys = Ups(2) \o <<LF>>
    /\ get_line_result.value = editor.m_history[Len(editor.m_history) - 1]

\* C9, as claimed: with a non-empty history, arrow-up then arrow-down gives
\* back the buffer there was before the arrow-up, and up, down, newline on
\* an empty prompt returns the empty string.
UpThenDownRestores ==
    editor.m_history # <<>> =>
        /\ \A n \in 0..MaxLen :
              (editor.m_is_editing /\ keys = Repeat(Chr_x, n) \o ArrowUp \o ArrowDown) =>
                  editor.m_buffer = Repeat(Chr_x, n)
        /\ (get_line_result # NoResult /\ keys = ArrowUp \o ArrowDown \o <<LF>>) =>
              get_line_result = [is_error |-> FALSE, error |-> NoError, value |-> <<>>]


(***************************************************************************)
(* Single calls of search on an editor in a session, with a history, a     *)
(* buffer and a search offset.                                             *)
(***************************************************************************)
Phrases == {<<>>, <<Chr_x>>, <<Chr_X>>, <<Chr_x, Chr_X>>}

SearchInit ==
    /\ \E history \in Histories, search_offset \in 0..MaxSearchOffset,
          len \in 0..1 :
          editor = [GetLineEnter(NewEditor(history, TRUE)) EXCEPT
                       !.m_search_offset = search_offset,
                       !.m_buffer = Repeat(Chr_x, len),
                       !.m_cursor = len,
                       !.m_inline_search_cursor = len,
                       !.m_drawn_cursor = len]
    /\ get_line_result = NoResult
    /\ keys = <<>>
    /\ history_log = <<>>
    /\ last_call = NoCall

\* search(phrase, allow_empty, from_beginning)
SearchCall ==
    /\ last_call = NoCall
    /\ \E phrase \in Phrases, allow_empty \in BOOLEAN, from_beginning \in BOOLEAN :
          /\ editor' = Search(editor, phrase, allow_empty, from_beginning)
          /\ last_call' = [op |-> "search", phrase |-> phrase,
                           allow_empty |-> allow_empty,
                           from_beginning |-> from_beginning, before |-> editor]
    /\ UNCHANGED <<get_line_result, keys, history_log>>

SearchNext == SearchCall

SpecSearch == SearchInit /\ [][SearchNext]_vars

\* The entries of history[1..i] that match the phrase, newest first.
RECURSIVE MatchesNewestFirst(_, _, _, _)
MatchesNewestFirst(history, i, phrase, from_beginning) ==
    IF i = 0 THEN <<>>
    ELSE (IF (IF from_beginning THEN StartsWith(history[i], phrase)
              ELSE Contains(history[i], phrase))
          THEN <<history[i]>> ELSE <<>>)
         \o MatchesNewestFirst(history, i - 1, phrase, from_beginning)

\* C10, as claimed: a search that scans the history is a hit (the buffer is
\* the match at position search_offset among the matches, newest first, and
\* true is returned) exactly when at least search_offset + 1 entries match,
\* and otherwise a miss (the bell rings and false is returned).
SearchHitsAtOffset ==
    (last_call.op = "search" /\ (last_call.allow_empty \/ last_call.phrase # <<>>)) =>
        LET before == last_call.before
            matches == MatchesNewestFirst(before.m_history, before.m_history_cursor,
                                          last_call.phrase, last_call.from_beginning)
        IN IF Len(matches) >= before.m_search_offset + 1
           THEN /\ editor.search_result
                /\ editor.m_buffer = matches[before.m_search_offset + 1]
           ELSE /\ ~editor.search_result
                /\ editor.bell

(***************************************************************************)
(* The search of Ctrl-R in a session: the user types, presses Ctrl-R, and  *)
(* the search editor reads the keys until its line ends; last_call keeps   *)
(* the last read of the search editor, the phrase it held and the buffer   *)
(* the searching editor showed before it.                                  *)
(***************************************************************************)
\* What the searching editor reads: the end of the line, Ctrl-R alone and
\* Ctrl-R followed by a key in the same read.
OuterInputs == { <<LF>>, <<ctrl(Chr_R)>>, <<ctrl(Chr_R), Chr_X>> }

\* The histories that are searched.
NestedHistories ==
    { << <<Chr_X>>, <<Chr_x, Chr_X>>, <<Chr_x>> >>,
      << <<Chr_x, SPACE, Chr_X>>, <<Chr_x, Chr_x>> >> }

\* The keys the search editor reads.
SearchKeys == {Chr_x, Chr_X, ctrl(Chr_R), VERASE, ctrl(Chr_L), TAB, LF, VEOF}

NestedInit ==
    /\ \E history \in NestedHistories : editor = NewEditor(history, TRUE)
    /\ get_line_result = NoResult
    /\ keys = <<>>
    /\ history_log = <<>>
    /\ last_call = NoCall

\* The notifier of the searching editor fires.
OuterRead ==
    /\ \E bytes \in OuterInputs :
          /\ editor.m_incomplete_data = <<>>
          /\ Ready(ReadData(bytes))
    /\ last_call' = NoCall
    /\ UNCHANGED <<keys, history_log>>

\* The notifier of the search editor fires and read() gives rd.
SearchEditorReady(rd) ==
    /\ editor.m_search_editor # <<>>
    /\ Notifies(editor.m_search_editor[1])
    /\ Delivered(AfterSearchEvent(OnReadyToRead(SearchEditorOf(editor), rd)))
    /\ last_call' = [op |-> "search_read", rd |-> rd,
                     phrase |-> editor.m_search_editor[1].m_buffer,
                     offset |-> editor.m_search_offset,
                     shown |-> editor.m_buffer]
    /\ UNCHANGED <<keys, history_log>>

\* The search editor reads one key.
SearchEditorReadKey ==
    \E code_point \in SearchKeys : SearchEditorReady(ReadData(<<code_point>>))

\* read() of the search editor fails or gives no byte.
SearchEditorReadFails ==
    \E rd \in {ReadEINTR, ReadEIO, ReadData(<<>>)} : SearchEditorReady(rd)

NestedNext ==
    \/ GetLine
    \/ OuterRead
    \/ SearchEditorReadKey
    \/ SearchEditorReadFails
    \/ LoopQuits

SpecNested == NestedInit /\ [][NestedNext]_vars

\* C11: from the start of get_line of the search editor until it returns,
\* the notifier of the searching editor is disabled, so that at most one
\* editor, the search editor, reads the terminal; when the search editor
\* has returned, with a line or with an error, the notifier is enabled
\* again.
OneEditorReads ==
    /\ editor.m_search_editor # <<>> =>
          /\ ~Notifies(editor)
          /\ ~editor.m_notifier[1].enabled
          /\ Notifies(editor.m_search_editor[1])
    /\ (editor.m_search_editor = <<>> /\ editor.m_notifier # <<>>) =>
          editor.m_notifier[1].enabled

\* The search editor has returned with an error and the notifier of the
\* searching editor is enabled.
OneEditorReadsWitness ==
    /\ last_call.op = "search_read"
    /\ last_call.rd = ReadEIO
    /\ editor.m_search_editor = <<>>
    /\ editor.m_input_error = "ReadFailure"
    /\ editor.m_notifier # <<>>
    /\ editor.m_notifier[1].enabled

\* The entries of the history of e that contain the phrase, newest first.
EntriesWith(e, phrase) ==
    MatchesNewestFirst(e.m_history, Len(e.m_history), phrase, FALSE)

\* C12: while the search editor holds a phrase p that is not empty, the
\* buffer of the searching editor is the newest history entry that contains
\* p, and after k presses of Ctrl-R in the search editor the k-th next older
\* entry that contains p, when there is one; a press of Ctrl-R moves on by
\* one entry; a newline in the search editor makes get_line of the
\* searching editor return the buffer shown when it was read.
SearchShowsMatch ==
    /\ editor.m_search_editor # <<>> =>
          LET p == editor.m_search_editor[1].m_buffer
          IN (p # <<>> /\ editor.m_search_offset < Len(EntriesWith(editor, p))) =>
                editor.m_buffer = EntriesWith(editor, p)[editor.m_search_offset + 1]
    /\ (/\ last_call.op = "search_read"
        /\ last_call.rd = ReadData(<<ctrl(Chr_R)>>)
        /\ editor.m_search_editor # <<>>) =>
          editor.m_search_offset = last_call.offset + 1
    /\ (/\ last_call.op = "search_read"
        /\ last_call.rd = ReadData(<<LF>>)
        /\ last_call.phrase # <<>>
        /\ get_line_result # NoResult) =>
          get_line_result = [is_error |-> FALSE, error |-> NoError,
                             value |-> last_call.shown]

\* The phrase x, Ctrl-R once and newline returned the second newest entry
\* that contains x.
SearchShowsMatchWitness ==
    /\ editor.m_history = << <<Chr_X>>, <<Chr_x, Chr_X>>, <<Chr_x>> >>
    /\ last_call.op = "search_read"
    /\ last_call.rd = ReadData(<<LF>>)
    /\ last_call.phrase = <<Chr_x>>
    /\ last_call.offset = 1
    /\ get_line_result # NoResult
    /\ get_line_result.value = <<Chr_x, Chr_X>>

\* The last read of the search editor made its get_line return a line: a
\* tab, a newline, or a read interrupted by a signal other than SIGINT.
SearchReturnedLine ==
    /\ last_call.op = "search_read"
    /\ editor.m_search_editor = <<>>
    /\ last_call.rd \in {ReadData(<<TAB>>), ReadData(<<LF>>), ReadEINTR}

SearchEditorError ==
    IF last_call.rd = ReadEIO THEN "ReadFailure" ELSE "Empty"

\* The last read of the search editor made its get_line return an error.
SearchReturnedError ==
    /\ last_call.op = "search_read"
    /\ editor.m_search_editor = <<>>
    /\ last_call.rd \in {ReadEIO, ReadData(<<>>)}

\* C31: when get_line of the search editor returns an error, the searching
\* editor records the same error and its session ends: the editing is
\* over, the loop is about to quit or has quit, and get_line of the
\* searching editor returns that error and no line.
SearchErrorPropagates ==
    SearchReturnedError =>
        /\ editor.m_input_error = SearchEditorError
        /\ ~editor.m_is_editing
        /\ editor.deferred_invoke \/ get_line_result # NoResult
        /\ get_line_result # NoResult =>
              get_line_result = [is_error |-> TRUE, error |-> SearchEditorError,
                                 value |-> <<>>]

\* The search editor read no byte while the searching editor showed a
\* match, and get_line of the searching editor has returned Empty.
SearchErrorPropagatesWitness ==
    /\ SearchReturnedError
    /\ last_call.rd = ReadData(<<>>)
    /\ last_call.phrase = <<Chr_x>>
    /\ last_call.shown # <<>>
    /\ get_line_result = [is_error |-> TRUE, error |-> "Empty", value |-> <<>>]

(***************************************************************************)
(* get_line in every operation mode and refresh behaviour, with a terminal *)
(* that may fail to answer and reads that may fail; last_call keeps the    *)
(* last read and what the editor held before it.                           *)
(***************************************************************************)
OperationModes == {"Unset", "Full", "NoEscapeSequences", "NonInteractive"}

Environments == [istty : BOOLEAN, xterm : BOOLEAN]

\* What getline gives: the end of the input, an error, lines.
GetlineResults ==
    { [line |-> <<>>, line_length |-> -1, errno |-> "0"],
      [line |-> <<>>, line_length |-> -1, errno |-> "EIO"],
      [line |-> <<LF>>, line_length |-> 1, errno |-> "0"],
      [line |-> <<Chr_x, LF>>, line_length |-> 2, errno |-> "0"],
      [line |-> <<Chr_x>>, line_length |-> 1, errno |-> "0"] }

\* The keys read in these sessions.
ModesKeys == {Chr_x, LF, VEOF}

ModesInit ==
    /\ \E mode \in OperationModes, environment \in Environments, eager \in BOOLEAN :
          editor = [NewEditor(<<>>, TRUE) EXCEPT !.operation_mode = mode,
                                                 !.environment = environment,
                                                 !.m_always_refresh = eager]
    /\ get_line_result = NoResult
    /\ keys = <<>>
    /\ history_log = <<>>
    /\ last_call = NoCall

\* The caller is not inside get_line.
Idle ==
    /\ ~editor.m_is_editing
    /\ editor.m_notifier = <<>>
    /\ get_line_result = NoResult

\* get_line in Full mode, up to loop.exec().
FullGetLine ==
    /\ Idle
    /\ Initialize(editor).operation_mode = "Full"
    /\ \E dsr \in DsrResults : editor' = GetLineFull(editor, dsr)
    /\ UNCHANGED <<get_line_result, keys, history_log, last_call>>

\* get_line in the other modes, from the call to the return.
BlockingGetLine ==
    /\ Idle
    /\ Initialize(editor).operation_mode # "Full"
    /\ \E gl \in GetlineResults :
          /\ editor' = GetLineBlocking(editor, gl).editor
          /\ get_line_result' = GetLineBlocking(editor, gl).result
    /\ UNCHANGED <<keys, history_log, last_call>>

\* A read event of the session.
ModesRead ==
    /\ \E rd \in {ReadData(<<k>>) : k \in ModesKeys} \cup {ReadEINTR, ReadEIO, ReadData(<<>>)} :
          /\ Ready(rd)
          /\ last_call' = [op |-> "read", rd |-> rd,
                           buffer |-> editor.m_buffer,
                           latched |-> editor.m_finish,
                           eager |-> editor.m_always_refresh]
    /\ UNCHANGED <<keys, history_log>>

ModesNext ==
    \/ FullGetLine
    \/ BlockingGetLine
    \/ ModesRead
    \/ LoopQuits

SpecModes == ModesInit /\ [][ModesNext]_vars

\* The number of times restore() has been called since get_line was entered.
RECURSIVE Restores(_)
Restores(log) ==
    IF log = <<>> THEN 0
    ELSE (IF Head(log) = "restore" THEN 1 ELSE 0) + Restores(Tail(log))

\* C14, as claimed: in every operation mode and for every outcome, when
\* get_line has returned, restore() has been called and the terminal has
\* the attributes initialize() found.
RestoredOnEveryReturn ==
    get_line_result # NoResult =>
        /\ Restores(editor.teardown_log) >= 1
        /\ ~editor.m_initialized
        /\ editor.tty = editor.m_default_termios

\* VEOF was read in state Free while the buffer was empty and the session
\* was going on.
EofRead ==
    /\ last_call.op = "read"
    /\ last_call.rd = ReadData(<<VEOF>>)
    /\ last_call.buffer = <<>>
    /\ ~last_call.latched

\* C15, as amended: VEOF read while the buffer is empty records Eof, ends
\* the session and makes get_line return Eof when the refresh behaviour is
\* Lazy; when it is Eager no error is recorded, the latch is not set and
\* the session goes on with the empty buffer.
EofEndsLazySession ==
    EofRead =>
        IF last_call.eager
        THEN /\ editor.m_input_error = NoError
             /\ editor.m_is_editing
             /\ ~editor.m_finish
             /\ editor.m_buffer = <<>>
             /\ get_line_result = NoResult
        ELSE /\ editor.m_input_error = "Eof"
             /\ ~editor.m_is_editing
             /\ get_line_result # NoResult =>
                   get_line_result = [is_error |-> TRUE, error |-> "Eof", value |-> <<>>]

\* A Lazy editor has read VEOF on its empty buffer and get_line has
\* returned Eof.
EofEndsLazySessionWitness ==
    /\ EofRead
    /\ ~last_call.eager
    /\ get_line_result = [is_error |-> TRUE, error |-> "Eof", value |-> <<>>]

\* C15, as claimed: in state Free, in Lazy and in Eager refresh behaviour,
\* VEOF read while the buffer is empty records the error Eof and ends the
\* session, and get_line returns Eof.
EofEndsSession ==
    (/\ last_call.op = "read"
     /\ last_call.rd = ReadData(<<VEOF>>)
     /\ last_call.buffer = <<>>
     /\ ~last_call.latched) =>
        /\ editor.m_input_error = "Eof"
        /\ ~editor.m_is_editing
        /\ get_line_result # NoResult =>
              get_line_result = [is_error |-> TRUE, error |-> "Eof", value |-> <<>>]

\* The error returned by read events that record one: no byte read, a read
\* that fails with another error than EINTR, VEOF on an empty buffer in Lazy
\* refresh behaviour.
ErrorOfRead(call) ==
    IF call.op # "read" \/ call.latched THEN NoError
    ELSE IF call.rd = ReadData(<<>>) THEN "Empty"
    ELSE IF call.rd = ReadEIO THEN "ReadFailure"
    ELSE IF call.rd = ReadData(<<VEOF>>) /\ call.buffer = <<>> /\ ~call.eager THEN "Eof"
    ELSE NoError

MaxTyped == 5

SubmitInputs ==
    { <<Chr_x>>, <<Chr_X>>, <<VERASE>>, <<LF>>, <<LF, Chr_x>>,
      <<Chr_x, Chr_X, VERASE, LF, Chr_X>> }

SubmitInit ==
    /\ editor = NewEditor(<<>>, TRUE)
    /\ get_line_result = NoResult
    /\ keys = <<>>
    /\ history_log = <<>>
    /\ last_call = NoCall

\* One read of the session.
SubmitRead ==
    /\ \E bytes \in SubmitInputs :
          /\ Len(keys) + Len(bytes) <= MaxTyped
          /\ editor.m_incomplete_data = <<>>
          /\ Ready(ReadData(bytes))
          /\ keys' = keys \o bytes
    /\ UNCHANGED <<history_log, last_call>>

SubmitNext ==
    \/ GetLine
    \/ SubmitRead
    \/ LoopQuits

SpecSubmit == SubmitInit /\ [][SubmitNext]_vars

\* What the code points typed up to the first newline leave on the line:
\* a printable is appended, VERASE erases the last code point.
RECURSIVE TypedLine(_, _)
TypedLine(typed, line) ==
    IF typed = <<>> \/ Head(typed) = LF THEN line
    ELSE IF Head(typed) = VERASE
    THEN TypedLine(Tail(typed), IF line = <<>> THEN line ELSE SubSeq(line, 1, Len(line) - 1))
    ELSE TypedLine(Tail(typed), Append(line, Head(typed)))

HasNewline(typed) == \E i \in 1..Len(typed) : typed[i] = LF

\* C17: when a newline is read, get_line returns the buffer as it is when
\* the newline is processed, without a newline at its end and without an
\* error; the code points that follow the newline in the same read are not
\* applied.
NewlineReturnsBuffer ==
    (get_line_result # NoResult /\ HasNewline(keys)) =>
        get_line_result = [is_error |-> FALSE, error |-> NoError,
                           value |-> TypedLine(keys, <<>>)]

\* x, X, VERASE, newline and X read at once: get_line has returned "x".
NewlineReturnsBufferWitness ==
    /\ keys = <<Chr_x, Chr_X, VERASE, LF, Chr_X>>
    /\ get_line_result = [is_error |-> FALSE, error |-> NoError, value |-> <<Chr_x>>]
    /\ editor.m_incomplete_data = <<Chr_X>>

\* The code points read after the first newline.
RECURSIVE AfterNewline(_)
AfterNewline(typed) ==
    IF typed = <<>> THEN <<>>
    ELSE IF Head(typed) = LF THEN Tail(typed)
    ELSE AfterNewline(Tail(typed))

\* C18: once the latch is set no further code point is processed; in the
\* same callback the newline is written, then the terminal attributes are
\* restored, then the event mask of the notifier is cleared, while the
\* notifier is still there and the loop runs; the notifier is removed and
\* the loop quits only afterwards, in the deferred invocation.
TeardownInOrder ==
    /\ editor.deferred_invoke =>
          /\ editor.teardown_log = <<"newline", "restore", "set_event_mask">>
          /\ ~editor.m_finish
          /\ editor.tty = editor.m_default_termios
          /\ editor.m_notifier # <<>>
          /\ editor.m_notifier[1].event_mask = "None"
          /\ get_line_result = NoResult
          /\ editor.m_incomplete_data = AfterNewline(keys)
          /\ editor.m_returned_line = TypedLine(keys, <<>>)
    /\ get_line_result # NoResult =>
          /\ editor.teardown_log =
                 <<"newline", "restore", "set_event_mask", "remove_child", "quit">>
          /\ editor.m_notifier = <<>>
          /\ ~editor.deferred_invoke
    /\ (editor.m_is_editing /\ ~editor.m_finish) =>
          /\ editor.teardown_log = <<>>
          /\ editor.m_notifier # <<>>
          /\ editor.m_notifier[1].event_mask = "Read"

\* The callback that read x, newline and x has returned and the deferred
\* invocation has not run.
TeardownInOrderWitness ==
    /\ keys = <<Chr_x, LF, Chr_x>>
    /\ editor.deferred_invoke
    /\ editor.m_notifier # <<>>
    /\ editor.m_incomplete_data = <<Chr_x>>
    /\ get_line_result = NoResult

(***************************************************************************)
(* The interrupt: an editor in a session, with a buffer, a cursor and      *)
(* anchored spans, with or without the hook on_interrupt_handled, whose    *)
(* flag m_was_interrupted is set, and which observes it at the start of    *)
(* on_ready_to_read or when read() fails with EINTR.  last_call keeps the  *)
(* editor before.                                                          *)
(***************************************************************************)
InterruptInit ==
    /\ \E len \in 0..MaxLen :
         \E cursor \in 0..len :
           \E spans \in SUBSET SpansInside(len) :
             \E hook \in BOOLEAN :
                /\ Cardinality(spans) <= MaxSpans
                /\ editor = [EditorWith(len, cursor, spans) EXCEPT
                                 !.m_was_interrupted = TRUE,
                                 !.on_interrupt_handled = hook]
    /\ get_line_result = NoResult
    /\ keys = <<>>
    /\ history_log = <<>>
    /\ last_call = NoCall

\* on_ready_to_read finds the flag set.
InterruptObservedFirst ==
    /\ last_call = NoCall
    /\ editor' = InterruptFirst(editor)
    /\ last_call' = [op |-> "interrupt", before |-> editor]
    /\ UNCHANGED <<get_line_result, keys, history_log>>

\* read() fails with EINTR and handle_read_event finds the flag set.
InterruptedRead ==
    /\ last_call = NoCall
    /\ editor' = HandleReadEvent(editor, ReadEINTR)
    /\ last_call' = [op |-> "interrupted_read", before |-> editor]
    /\ UNCHANGED <<get_line_result, keys, history_log>>

InterruptNext ==
    \/ InterruptObservedFirst
    \/ InterruptedRead

SpecInterrupt == InterruptInit /\ [][InterruptNext]_vars

\* The string is among what the handler wrote and called.
Observed(e, what) == \E i \in 1..Len(e.observed) : e.observed[i] = what

\* What the handling of an interrupt leaves, but for "^C": the flag is
\* cleared, the buffer is empty, the cursor is 0, the hook was called when
\* there is one, the line was drawn again and the latch is not set.
InterruptHandled ==
    /\ ~editor.m_was_interrupted
    /\ editor.m_buffer = <<>>
    /\ editor.m_cursor = 0
    /\ Observed(editor, "on_interrupt_handled") = last_call.before.on_interrupt_handled
    /\ ~editor.m_refresh_needed
    /\ editor.m_cached_prompt_valid
    /\ editor.m_drawn_cursor = 0
    /\ editor.m_pending_chars = <<>>
    /\ ~editor.m_finish
    /\ editor.m_is_editing

\* C19, as claimed: when m_was_interrupted is observed the flag is cleared,
\* "^C" is written, the buffer is empty and the cursor 0 afterwards,
\* on_interrupt_handled is called, a refresh is forced and the latch is not
\* set.
InterruptWritesCtrlC ==
    last_call # NoCall =>
        /\ InterruptHandled
        /\ Observed(editor, "^C")

\* C19, as amended: the same, "^C" being written exactly when the buffer
\* was not empty.
InterruptWritesCtrlCOverText ==
    last_call # NoCall =>
        /\ InterruptHandled
        /\ Observed(editor, "^C") = (last_call.before.m_buffer # <<>>)

\* An interrupt of an editor with text and the hook: "^C" was written and
\* the hook called.
InterruptWritesCtrlCOverTextWitness ==
    /\ last_call # NoCall
    /\ last_call.op = "interrupted_read"
    /\ Len(last_call.before.m_buffer) = 2
    /\ last_call.before.m_cursor = 1
    /\ editor.observed = <<"^C", "on_interrupt_handled">>
    /\ editor.m_buffer = <<>>

(***************************************************************************)
(* Tab completion in a session: the caller has set on_tab_complete; the    *)
(* suggestions and the results of attempt_completion are those of any      *)
(* suggestion manager that keeps to its contract.                          *)
(***************************************************************************)
\* The value of m_times_tab_pressed up to which tab presses are followed.
MaxTabs == 3

CompletionModes == {"DontComplete", "CompletePrefix", "ShowSuggestions", "CycleSuggestions"}

\* What the manager can answer to a tab press of the editor e.
Attempts(e) ==
    { a \in [count : 0..2, new_completion_mode : CompletionModes,
              insert : {<<>>, <<Chr_x>>}, remove : 0..1] :
         /\ a.remove <= e.m_cursor
         /\ e.m_times_tab_pressed > 0 => a.count = 0 }

TabInit ==
    /\ editor = [NewEditor(<<>>, TRUE) EXCEPT !.on_tab_complete = TRUE]
    /\ get_line_result = NoResult
    /\ keys = <<>>
    /\ history_log = <<>>
    /\ last_call = NoCall

\* The tab is read and the manager answers.
TabPress ==
    /\ Notifies(editor)
    /\ editor.m_times_tab_pressed <= MaxTabs
    /\ \E attempt \in Attempts(editor) :
          Delivered(OnReadyToRead([editor EXCEPT !.attempt = attempt], ReadData(<<TAB>>)))
    /\ UNCHANGED <<keys, history_log, last_call>>

\* Another key is read.
TabOtherKey ==
    /\ \E code_point \in {Chr_x, LF} : Ready(ReadData(<<code_point>>))
    /\ UNCHANGED <<keys, history_log, last_call>>

TabNext ==
    \/ GetLine
    \/ TabPress
    \/ TabOtherKey
    \/ LoopQuits

SpecTab == TabInit /\ [][TabNext]_vars

\* C20, as claimed: the mode a tab press passes to attempt_completion is
\* given by the number of the press in the completion: CompletePrefix at
\* the first, ShowSuggestions at the second, CycleSuggestions from the
\* third on, whatever mode the manager asked for at the presses before.
ModeFollowsPresses ==
    \A i \in 1..Len(editor.completion_log) :
        editor.completion_log[i].mode = CompletionMode(i)

\* The value of m_times_tab_pressed at the i-th press of the log, after its
\* increment: one more than the presses before, and one more again for each
\* of them at which the manager asked for ShowSuggestions or
\* CycleSuggestions.
RECURSIVE TabsAt(_, _)
TabsAt(log, i) ==
    IF i = 1 THEN 1
    ELSE TabsAt(log, i - 1) + 1
         + (IF log[i - 1].new_completion_mode \in {"ShowSuggestions", "CycleSuggestions"}
            THEN 1 ELSE 0)

\* C20, as amended: the mode passed at a press is given by the counter
\* m_times_tab_pressed, which a press increments and which is incremented
\* once more after a press at which the manager asked for ShowSuggestions
\* or CycleSuggestions; while the completion goes on the counter is the one
\* of the last press, advanced in that way.
ModeFollowsCounter ==
    /\ \A i \in 1..Len(editor.completion_log) :
          editor.completion_log[i].mode = CompletionMode(TabsAt(editor.completion_log, i))
    /\ editor.m_times_tab_pressed > 0 =>
          editor.m_times_tab_pressed + 1 =
              TabsAt(editor.completion_log
                         \o <<[new_completion_mode |-> "", mode |-> ""]>>,
                     Len(editor.completion_log) + 1)

\* The manager asked for ShowSuggestions at the first press and the second
\* press passed CycleSuggestions.
ModeFollowsCounterWitness ==
    /\ Len(editor.completion_log) = 2
    /\ editor.completion_log[1] =
          [new_completion_mode |-> "ShowSuggestions", mode |-> "CompletePrefix"]
    /\ editor.completion_log[2].mode = "CycleSuggestions"

(***************************************************************************)
(* The metrics of a rendered string: single calls of                       *)
(* actual_rendered_string_metrics on strings made of printable code        *)
(* points, newlines, carriage returns, CSI sequences and title sequences.  *)
(***************************************************************************)
\* VTState actual_rendered_string_length_step(metrics, length, c, next_c,
\* state); m holds the metrics, the running length and the state.
ActualRenderedStringLengthStep(m, c, next_c) ==
    CASE m.state = "Free" ->
           IF c = ESC THEN [m EXCEPT !.state = "Escape"]
           ELSE IF c = CR
           THEN [m EXCEPT !.length = 0,
                          !.line_lengths =
                              IF @ # <<>> THEN [@ EXCEPT ![Len(@)] = 0] ELSE @]
           ELSE IF c = LF
           THEN [m EXCEPT !.line_lengths = Append(@, m.length), !.length = 0]
           ELSE [m EXCEPT !.length = @ + 1, !.total_length = @ + 1]
      [] m.state = "Escape" ->
           IF c = Chr_RBracket
           THEN (IF next_c = Chr_0 THEN [m EXCEPT !.state = "Title"] ELSE m)
           ELSE IF c = Chr_LBracket THEN [m EXCEPT !.state = "Bracket"]
           ELSE m
      [] m.state = "Bracket" ->
           IF isdigit(c) THEN [m EXCEPT !.state = "BracketArgsSemi"] ELSE m
      [] m.state = "BracketArgsSemi" ->
           IF c = Chr_Semicolon THEN [m EXCEPT !.state = "Bracket"]
           ELSE IF ~isdigit(c) THEN [m EXCEPT !.state = "Free"]
           ELSE m
      [] m.state = "Title" ->
           IF c = BEL THEN [m EXCEPT !.state = "Free"] ELSE m

\* The loop of actual_rendered_string_metrics from the code point i on;
\* next_c is 0 after the last code point.
RECURSIVE MetricsLoop(_, _, _)
MetricsLoop(m, string, i) ==
    IF i > Len(string) THEN m
    ELSE MetricsLoop(ActualRenderedStringLengthStep(
                         m, string[i], IF i + 1 <= Len(string) THEN string[i + 1] ELSE 0),
                     string, i + 1)

RECURSIVE MaxOf(_)
MaxOf(lengths) ==
    IF lengths = <<>> THEN 0
    ELSE LET rest == MaxOf(Tail(lengths))
         IN IF Head(lengths) > rest THEN Head(lengths) ELSE rest

\* StringMetrics actual_rendered_string_metrics(string): the length of the
\* last line is appended after the loop and the longest line is looked for.
ActualRenderedStringMetrics(string) ==
    LET m == MetricsLoop([line_lengths |-> <<>>, total_length |-> 0,
                          length |-> 0, state |-> "Free"], string, 1)
        line_lengths == Append(m.line_lengths, m.length)
    IN [line_lengths |-> line_lengths,
        total_length |-> m.total_length,
        max_line_length |-> MaxOf(line_lengths)]

\* The number of pieces a string is made of.
MaxPieces == 3

\* The pieces: a printable code point, a newline, a carriage return, a CSI
\* sequence with one parameter, with two, with none, and a title sequence.
Pieces ==
    { <<Chr_x>>, <<LF>>, <<CR>>,
      <<ESC, Chr_LBracket, Chr_3, Chr_m>>,
      <<ESC, Chr_LBracket, Chr_3, Chr_Semicolon, Chr_0, Chr_H>>,
      <<ESC, Chr_LBracket, Chr_K>>,
      <<ESC, Chr_RBracket, Chr_0, Chr_Semicolon, Chr_x, BEL>> }

RECURSIVE Flatten(_)
Flatten(pieces) ==
    IF pieces = <<>> THEN <<>> ELSE Head(pieces) \o Flatten(Tail(pieces))

MetricsInit ==
    /\ editor = NewEditor(<<>>, TRUE)
    /\ get_line_result = NoResult
    /\ keys = <<>>
    /\ history_log = <<>>
    /\ \E n \in 0..MaxPieces : \E pieces \in [1..n -> Pieces] :
          last_call = [op |-> "string", pieces |-> pieces]

\* actual_rendered_string_metrics(string), the string being the pieces put
\* together.
MetricsCall ==
    /\ last_call.op = "string"
    /\ last_call' = [op |-> "metrics", pieces |-> last_call.pieces,
                     metrics |-> ActualRenderedStringMetrics(Flatten(last_call.pieces))]
    /\ UNCHANGED <<editor, get_line_result, keys, history_log>>

MetricsNext == MetricsCall

SpecMetrics == MetricsInit /\ [][MetricsNext]_vars

\* The number of printable code points among the pieces.
PrintableCount(pieces) ==
    Cardinality({i \in 1..Len(pieces) : pieces[i] = <<Chr_x>>})

\* C21, as claimed: the total length of the metrics of a string made of
\* printable code points, newlines, carriage returns, CSI sequences (with
\* and without numeric parameters) and title sequences is the number of
\* its printable code points that lie outside the escape sequences.
TotalLengthCountsPrintables ==
    last_call.op = "metrics" =>
        last_call.metrics.total_length = PrintableCount(last_call.pieces)

\* The lengths of the lines of the pieces from the piece i on, length being
\* the number of printable code points of the line of piece i so far, after
\* its last carriage return.
RECURSIVE LinesOf(_, _, _)
LinesOf(pieces, i, length) ==
    IF i > Len(pieces) THEN <<length>>
    ELSE IF pieces[i] = <<LF>> THEN <<length>> \o LinesOf(pieces, i + 1, 0)
    ELSE IF pieces[i] = <<CR>> THEN LinesOf(pieces, i + 1, 0)
    ELSE LinesOf(pieces, i + 1, length + (IF pieces[i] = <<Chr_x>> THEN 1 ELSE 0))

\* C22, as claimed: line_lengths has one entry for each line of the string,
\* the lines being what the newlines separate, and the entry of a line is
\* the number of its printable code points after its last carriage return;
\* a carriage return changes the entry of no other line.
\* The formula looks at the strings that hold no escape sequence.
LineLengthsPerLine ==
    (/\ last_call.op = "metrics"
     /\ \A i \in 1..Len(last_call.pieces) : Len(last_call.pieces[i]) = 1) =>
        last_call.metrics.line_lengths = LinesOf(last_call.pieces, 1, 0)

(***************************************************************************)
(* Calls of refresh_display one after the other, nothing happening in      *)
(* between, on an editor in the state in which the handler of a read       *)
(* calls it (the first read of the session, or the one after x X was read  *)
(* and drawn), or get_line before the first key.                           *)
(***************************************************************************)
\* What was read before the calls: printables, ^B, ^A, the backspace.
RefreshKeys == {Chr_x, Chr_X, ctrl(Chr_B), ctrl(Chr_A), BS}

\* The number of code points read before the calls.
MaxRead == 3

RefreshInputs == UNION { [1..n -> RefreshKeys] : n \in 0..MaxRead }

RefreshInit ==
    /\ \E hook \in BOOLEAN :
          \/ \E drawn \in {<<>>, <<Chr_x, Chr_X>>}, typed \in RefreshInputs :
                editor = HandleReadEvent(
                             OnReadyToRead(
                                 [GetLineEnter(NewEditor(<<>>, TRUE)) EXCEPT
                                     !.on_display_refresh = hook],
                                 ReadData(drawn)),
                             ReadData(typed))
          \/ editor = Reset([Initialize(NewEditor(<<>>, TRUE)) EXCEPT
                                !.m_is_editing = TRUE, !.on_display_refresh = hook])
    /\ get_line_result = NoResult
    /\ keys = <<>>
    /\ history_log = <<>>
    /\ last_call = [op |-> "none", calls |-> 0]

\* refresh_display(), at most twice.
RefreshCall ==
    /\ last_call.calls < 2
    /\ editor' = RefreshDisplay(editor)
    /\ last_call' = [op |-> "refresh_display", calls |-> last_call.calls + 1,
                     before |-> editor, written |-> RefreshOutput(editor)]
    /\ UNCHANGED <<get_line_result, keys, history_log>>

RefreshNext == RefreshCall

SpecRefresh == RefreshInit /\ [][RefreshNext]_vars

\* C23: the second of two calls of refresh_display, nothing happening in
\* between, leaves the editor as the first call left it (the buffer, the
\* cursor and the drawn cursor with it), calls no hook and writes nothing
\* but the move of the cursor to where the first call left it.
RefreshIsIdempotent ==
    (last_call.op = "refresh_display" /\ last_call.calls = 2) =>
        /\ editor = last_call.before
        /\ last_call.written = <<"move_absolute">>
        /\ last_call.before.m_drawn_cursor = last_call.before.m_cursor

\* The second call came after a first call that drew the whole line again,
\* the cursor being in the middle of the buffer.
RefreshIsIdempotentWitness ==
    /\ last_call.op = "refresh_display"
    /\ last_call.calls = 2
    /\ editor.m_cursor < Len(editor.m_buffer)
    /\ editor.m_cursor > 0
    /\ editor.on_display_refresh

MaxColour == 2

\* The styles: some graphic renditions, a foreground, a background and a
\* hyperlink, each of them default or set.
Styles ==
    { MkStyle(r[1], r[2], r[3], fg, bg, link, FALSE) :
        r \in {<<FALSE, FALSE, FALSE>>, <<TRUE, FALSE, FALSE>>, <<FALSE, TRUE, TRUE>>},
        fg \in 0..MaxColour, bg \in 0..MaxColour, link \in {"", "a", "b"} }

StyleInit ==
    /\ editor = NewEditor(<<>>, TRUE)
    /\ get_line_result = NoResult
    /\ keys = <<>>
    /\ history_log = <<>>
    /\ \E style \in Styles, other \in Styles, prefer_other \in BOOLEAN :
          last_call = [op |-> "style", style |-> style, other |-> other,
                       prefer_other |-> prefer_other]

\* style.unify_with(other, prefer_other)
UnifyCall ==
    /\ last_call.op = "style"
    /\ last_call' = [op |-> "unify_with", style |-> last_call.style,
                     other |-> last_call.other,
                     prefer_other |-> last_call.prefer_other,
                     result |-> UnifyWith(last_call.style, last_call.other,
                                          last_call.prefer_other)]
    /\ UNCHANGED <<editor, get_line_result, keys, history_log>>

StyleNext == UnifyCall

SpecStyle == StyleInit /\ [][StyleNext]_vars

\* The value the claim gives for a colour or a hyperlink: the side that is
\* set when one side is, and on a conflict the side prefer_other names.
Unified(mine, theirs, default, prefer_other) ==
    IF mine = default THEN theirs
    ELSE IF theirs = default THEN mine
    ELSE IF prefer_other THEN theirs ELSE mine

\* C24, as claimed: after unify_with the graphic renditions are those of
\* either side; the foreground, the background and the hyperlink are each
\* the value of the side that is not default when exactly one side is,
\* whatever prefer_other is, and on a conflict the value of other when
\* prefer_other is true and the value of the receiver when it is false.
UnifyKeepsSetValues ==
    last_call.op = "unify_with" =>
        LET style == last_call.style
            other == last_call.other
            result == last_call.result
        IN /\ result.bold = (style.bold \/ other.bold)
           /\ result.italic = (style.italic \/ other.italic)
           /\ result.underline = (style.underline \/ other.underline)
           /\ result.foreground =
                 Unified(style.foreground, other.foreground, 0, last_call.prefer_other)
           /\ result.background =
                 Unified(style.background, other.background, 0, last_call.prefer_other)
           /\ result.hyperlink =
                 Unified(style.hyperlink, other.hyperlink, "", last_call.prefer_other)

(***************************************************************************)
(* Sessions of an editor on which the caller has registered callbacks for  *)
(* some keys, all of which return the same value; last_call keeps the last *)
(* read and the editor before it.                                          *)
(***************************************************************************)
\* The keys the caller registers callbacks for, and the keys read.
CallbackKeys == {Chr_x, LF, ctrl(Chr_A), ESC}

ReadKeys == CallbackKeys \cup {Chr_X, Chr_t}

CallbackInit ==
    /\ \E registered \in SUBSET CallbackKeys, returns \in BOOLEAN :
          editor = GetLineEnter([NewEditor(<<>>, TRUE) EXCEPT
                                    !.m_key_callbacks = registered,
                                    !.callback_returns = returns])
    /\ get_line_result = NoResult
    /\ keys = <<>>
    /\ history_log = <<>>
    /\ last_call = NoCall

\* The notifier fires and read() gives one key.
CallbackRead ==
    /\ Len(editor.m_buffer) < MaxLen
    /\ \E code_point \in ReadKeys :
          /\ Ready(ReadData(<<code_point>>))
          /\ last_call' = [op |-> "read", code_point |-> code_point, before |-> editor]
    /\ UNCHANGED <<keys, history_log>>

CallbackNext == CallbackRead

SpecCallback == CallbackInit /\ [][CallbackNext]_vars

\* The editor after the handler of a read of code_point in the state
\* before, had no callback been registered.
DefaultProcessing(before, code_point) ==
    OnReadyToRead([before EXCEPT !.m_key_callbacks = {}], ReadData(<<code_point>>))

\* C25, as claimed: a code point read in state Free for which a callback
\* is registered has the callback called once; when the callback returns
\* true the editor then is as after the default processing of the code
\* point, and when it returns false the code point is not processed: the
\* buffer, the cursor and the input state are as before and the line is not
\* submitted.
CallbackDecidesProcessing ==
    (/\ last_call.op = "read"
     /\ last_call.before.m_state = "Free"
     /\ last_call.code_point \in last_call.before.m_key_callbacks) =>
        /\ editor.callback_invoked = <<last_call.code_point>>
        /\ IF last_call.before.callback_returns
           THEN editor =
                    [DefaultProcessing(last_call.before, last_call.code_point) EXCEPT
                        !.m_key_callbacks = editor.m_key_callbacks,
                        !.callback_invoked = editor.callback_invoked]
           ELSE /\ editor.m_buffer = last_call.before.m_buffer
                /\ editor.m_cursor = last_call.before.m_cursor
                /\ editor.m_state = "Free"
                /\ ~editor.deferred_invoke
(***************************************************************************)
(* Sessions whose reads give bytes of one-byte and two-byte UTF-8          *)
(* sequences, whole or cut; last_call keeps the bytes of the last read     *)
(* event and the incomplete data before and after it.                      *)
(***************************************************************************)
\* The bytes of U+00E9: a lead byte and a continuation byte.
Byte_C3 == 195

Byte_A9 == 169

MaxChunk == 3

Utf8Bytes == {Chr_x, LF, Byte_C3, Byte_A9}

Utf8Chunks == UNION {[1..n -> Utf8Bytes] : n \in 1..MaxChunk}

Utf8Init ==
    /\ editor = GetLineEnter(NewEditor(<<>>, TRUE))
    /\ get_line_result = NoResult
    /\ keys = <<>>
    /\ history_log = <<>>
    /\ last_call = NoCall

\* The notifier fires; read() is called when no incomplete data is left
\* over and gives a chunk of bytes.
Utf8Read ==
    /\ \E bytes \in IF editor.m_incomplete_data = <<>> THEN Utf8Chunks ELSE {<<>>} :
          /\ Ready(ReadData(bytes))
          /\ last_call' = [op |-> "read", bytes |-> bytes,
                           before |-> editor.m_incomplete_data,
                           left |-> editor'.m_incomplete_data]
    /\ UNCHANGED <<keys, history_log>>

Utf8Next ==
    \/ Utf8Read
    \/ LoopQuits

SpecUtf8 == Utf8Init /\ [][Utf8Next]_vars

\* The code points of a view the input state machine processes when all of
\* them are printable or a newline: those up to the newline that submits
\* the line.
RECURSIVE ProcessedOf(_)
ProcessedOf(view) ==
    IF view = <<>> THEN <<>>
    ELSE IF Head(view) = LF THEN <<LF>>
    ELSE <<Head(view)>> \o ProcessedOf(Tail(view))

\* The number of bytes of the UTF-8 sequences of code points below U+0800.
RECURSIVE EncodedLength(_)
EncodedLength(code_points) ==
    IF code_points = <<>> THEN 0
    ELSE (IF Head(code_points) < 128 THEN 1 ELSE 2) + EncodedLength(Tail(code_points))

\* The bytes of data, its invalid start discarded, that follow the bytes
\* of the code points processed.
NotYetProcessed(data) ==
    SubSeq(DiscardInvalidStart(data),
           EncodedLength(ProcessedOf(InputView(DiscardInvalidStart(data)))) + 1,
           Len(DiscardInvalidStart(data)))

\* C26, as claimed: after a read event the incomplete data is the bytes
\* read that the input state machine has not processed, in order: a cut
\* sequence at the end, or the bytes after the newline that submitted the
\* line; no byte of a processed code point is left in it, whether the code
\* point takes one byte or two.
IncompleteDataIsUnprocessed ==
    last_call.op = "read" =>
        last_call.left = NotYetProcessed(last_call.before \o last_call.bytes)

(***************************************************************************)
(* One word key on a line being edited: the buffer holds letters and       *)
(* spaces, the cursor is anywhere in it, and one read event brings a key   *)
(* that moves by a word or transposes words; last_call keeps the bytes     *)
(* and the editor before them.                                             *)
(***************************************************************************)
MaxWords == 6

WordCodePoints == {Chr_x, Chr_X, SPACE}

AltB == <<ESC, Chr_b>>

AltF == <<ESC, Chr_f>>

CtrlLeft == <<ESC, Chr_LBracket, Chr_O, Chr_D>>

CtrlRight == <<ESC, Chr_LBracket, Chr_O, Chr_C>>

AltT == <<ESC, Chr_t>>

WordKeys == {AltB, AltF, CtrlLeft, CtrlRight, AltT}

WordsInit ==
    /\ \E len \in 0..MaxWords :
         \E buffer \in [1..len -> WordCodePoints], cursor \in 0..len :
            editor = [GetLineEnter(NewEditor(<<>>, TRUE)) EXCEPT
                         !.m_buffer = buffer,
                         !.m_cursor = cursor,
                         !.m_inline_search_cursor = cursor,
                         !.m_drawn_cursor = cursor]
    /\ get_line_result = NoResult
    /\ keys = <<>>
    /\ history_log = <<>>
    /\ last_call = NoCall

\* The notifier fires and read() gives the bytes of one word key.
WordKey ==
    /\ last_call = NoCall
    /\ \E bytes \in WordKeys :
          /\ editor' = OnReadyToRead(editor, ReadData(bytes))
          /\ last_call' = [op |-> "key", bytes |-> bytes, before |-> editor]
    /\ UNCHANGED <<get_line_result, keys, history_log>>

WordsNext == WordKey

SpecWords == WordsInit /\ [][WordsNext]_vars

\* A run of alphanumerics of buffer starts at offset s, ends at offset t.
RunStartsAt(buffer, s) ==
    /\ s < Len(buffer)
    /\ isalnum(buffer[s + 1])
    /\ s = 0 \/ ~isalnum(buffer[s])

RunEndsAt(buffer, t) ==
    /\ t > 0
    /\ isalnum(buffer[t])
    /\ t = Len(buffer) \/ ~isalnum(buffer[t + 1])

\* The start of the nearest run that begins before c, or 0; the end of the
\* nearest run that ends after c, or the length.
NearestStartBefore(buffer, c) ==
    IF \E s \in 0..(c - 1) : RunStartsAt(buffer, s)
    THEN CHOOSE s \in 0..(c - 1) :
            /\ RunStartsAt(buffer, s)
            /\ \A s2 \in (s + 1)..(c - 1) : ~RunStartsAt(buffer, s2)
    ELSE 0

NearestEndAfter(buffer, c) ==
    IF \E t \in (c + 1)..Len(buffer) : RunEndsAt(buffer, t)
    THEN CHOOSE t \in (c + 1)..Len(buffer) :
            /\ RunEndsAt(buffer, t)
            /\ \A t2 \in (c + 1)..(t - 1) : ~RunEndsAt(buffer, t2)
    ELSE Len(buffer)

\* C28, as claimed: a word-left key (Alt-b, ctrl with arrow left) puts the
\* cursor at the start of the nearest run of alphanumerics that begins
\* before it, skipping every non-alphanumeric on the way, or at 0 when
\* there is none; a word-right key (Alt-f, ctrl with arrow right) puts it
\* at the end of the nearest run that ends after it, or at the end of the
\* buffer.
WordMotionSkipsGaps ==
    /\ (last_call.op = "key" /\ last_call.bytes \in {AltB, CtrlLeft}) =>
          editor.m_cursor =
              NearestStartBefore(last_call.before.m_buffer, last_call.before.m_cursor)
    /\ (last_call.op = "key" /\ last_call.bytes \in {AltF, CtrlRight}) =>
          editor.m_cursor =
              NearestEndAfter(last_call.before.m_buffer, last_call.before.m_cursor)

\* The code points of buffer between the offsets from and to are all
\* alphanumeric.
AllAlnum(buffer, from, to) == \A k \in (from + 1)..to : isalnum(buffer[k])

\* C28, amended: a word-left key with the cursor past 0 moves the cursor
\* over one code point, whatever it is, and then on to the start of the
\* run of alphanumerics that ends there, if one does; a word-right key
\* with the cursor before the end moves it over one code point and then
\* on to the end of the run of alphanumerics that starts there.  At 0 a
\* word-left key, and at the end a word-right key, leaves the cursor.  The
\* buffer is as before and the input state is Free.
WordMotionPassesOneThenRun ==
    (last_call.op = "key" /\ last_call.bytes # AltT) =>
        /\ editor.m_buffer = last_call.before.m_buffer
        /\ editor.m_state = "Free"
        /\ editor.m_inline_search_cursor = editor.m_cursor
        /\ last_call.bytes \in {AltB, CtrlLeft} =>
              IF last_call.before.m_cursor = 0 THEN editor.m_cursor = 0
              ELSE /\ editor.m_cursor < last_call.before.m_cursor
                   /\ AllAlnum(editor.m_buffer, editor.m_cursor,
                               last_call.before.m_cursor - 1)
                   /\ \/ editor.m_cursor = 0
                      \/ ~isalnum(editor.m_buffer[editor.m_cursor])
        /\ last_call.bytes \in {AltF, CtrlRight} =>
              IF last_call.before.m_cursor = Len(editor.m_buffer)
              THEN editor.m_cursor = Len(editor.m_buffer)
              ELSE /\ editor.m_cursor > last_call.before.m_cursor
                   /\ editor.m_cursor <= Len(editor.m_buffer)
                   /\ AllAlnum(editor.m_buffer, last_call.before.m_cursor + 1,
                               editor.m_cursor)
                   /\ \/ editor.m_cursor = Len(editor.m_buffer)
                      \/ ~isalnum(editor.m_buffer[editor.m_cursor + 1])

\* Ctrl with arrow left after a word and two spaces: the cursor passes one
\* space and stops.
WordMotionPassesOneThenRunWitness ==
    /\ last_call.op = "key"
    /\ last_call.bytes = CtrlLeft
    /\ last_call.before.m_buffer = <<Chr_x, Chr_X, SPACE, SPACE>>
    /\ last_call.before.m_cursor = 4
    /\ editor.m_cursor = 3

\* The start of the run of alphanumerics of buffer that ends at offset t.
RunStartOf(buffer, t) ==
    CHOOSE s \in 0..(t - 1) : RunStartsAt(buffer, s) /\ AllAlnum(buffer, s, t)

\* A run of alphanumerics ends after the offset c: a word lies under or
\* after the cursor.
WordFrom(buffer, c) == \E t \in (c + 1)..Len(buffer) : RunEndsAt(buffer, t)

\* A run of alphanumerics ends at or before the offset s: a word lies
\* before the word that starts at s.
WordBefore(buffer, s) == \E t \in 1..s : RunEndsAt(buffer, t)

LastEndBefore(buffer, s) ==
    CHOOSE t \in 1..s :
        /\ RunEndsAt(buffer, t)
        /\ \A t2 \in (t + 1)..s : ~RunEndsAt(buffer, t2)

\* prefix w2 g w1 suffix, for w1 = [s1, e1), g = [e1, s2), w2 = [s2, e2).
Transposed(buffer, s1, e1, s2, e2) ==
    SubSeq(buffer, 1, s1) \o SubSeq(buffer, s2 + 1, e2) \o SubSeq(buffer, e1 + 1, s2)
        \o SubSeq(buffer, s1 + 1, e1) \o SubSeq(buffer, e2 + 1, Len(buffer))

\* The buffer after ESC t when the second word ends at e2.
TransposedAt(buffer, e2) ==
    Transposed(buffer,
               RunStartOf(buffer, LastEndBefore(buffer, RunStartOf(buffer, e2))),
               LastEndBefore(buffer, RunStartOf(buffer, e2)),
               RunStartOf(buffer, e2),
               e2)

\* The number of code points of buffer equal to code_point.
CountOf(buffer, code_point) ==
    Cardinality({k \in 1..Len(buffer) : buffer[k] = code_point})

\* C29: ESC t with a word w2 under or after the cursor and a word w1
\* before it, a gap g of non-alphanumerics between them: the buffer
\* prefix w1 g w2 suffix becomes prefix w2 g w1 suffix, of the same length
\* and with the same code points as many times, and the cursor is at the
\* end of the swapped range; with no word before w2 the buffer and the
\* cursor are as before.
TransposeSwapsWords ==
    (/\ last_call.op = "key"
     /\ last_call.bytes = AltT
     /\ WordFrom(last_call.before.m_buffer, last_call.before.m_cursor)) =>
        IF WordBefore(last_call.before.m_buffer,
                      RunStartOf(last_call.before.m_buffer,
                                 NearestEndAfter(last_call.before.m_buffer,
                                                 last_call.before.m_cursor)))
        THEN /\ editor.m_buffer =
                    TransposedAt(last_call.before.m_buffer,
                                 NearestEndAfter(last_call.before.m_buffer,
                                                 last_call.before.m_cursor))
             /\ editor.m_cursor = NearestEndAfter(last_call.before.m_buffer,
                                                  last_call.before.m_cursor)
             /\ Len(editor.m_buffer) = Len(last_call.before.m_buffer)
             /\ \A code_point \in WordCodePoints :
                    CountOf(editor.m_buffer, code_point) =
                        CountOf(last_call.before.m_buffer, code_point)
        ELSE /\ editor.m_buffer = last_call.before.m_buffer
             /\ editor.m_cursor = last_call.before.m_cursor

\* 'xx XX ' with the cursor inside 'XX' has become 'XX xx ', the cursor
\* after 'xx'.
TransposeSwapsWordsWitness ==
    /\ last_call.op = "key"
    /\ last_call.bytes = AltT
    /\ last_call.before.m_buffer = <<Chr_x, Chr_x, SPACE, Chr_X, Chr_X, SPACE>>
    /\ last_call.before.m_cursor = 4
    /\ editor.m_buffer = <<Chr_X, Chr_X, SPACE, Chr_x, Chr_x, SPACE>>
    /\ editor.m_cursor = 5

(***************************************************************************)
(* The delete key: on a line being edited one read event brings ESC [ 3    *)
(* and up to two code points after it; last_call keeps the code points     *)
(* after ESC [ 3 and the editor before the read.                           *)
(***************************************************************************)
NUL == 0

MaxAfter == 2

AfterKeys == {Chr_Tilde, NUL, Chr_x, ESC, LF, ctrl(Chr_A)}

DeleteKey == <<ESC, Chr_LBracket, Chr_3>>

TerminatorInit ==
    /\ \E len \in 0..MaxLen :
         \E buffer \in [1..len -> {Chr_x, Chr_X}], cursor \in 0..len :
            editor = [GetLineEnter(NewEditor(<<>>, TRUE)) EXCEPT
                         !.m_buffer = buffer,
                         !.m_cursor = cursor,
                         !.m_inline_search_cursor = cursor,
                         !.m_drawn_cursor = cursor]
    /\ get_line_result = NoResult
    /\ keys = <<>>
    /\ history_log = <<>>
    /\ last_call = NoCall

\* The notifier fires and read() gives ESC [ 3 and what follows it.
DeleteRead ==
    /\ last_call = NoCall
    /\ \E n \in 0..MaxAfter :
         \E after \in [1..n -> AfterKeys] :
            /\ editor' = OnReadyToRead(editor, ReadData(DeleteKey \o after))
            /\ last_call' = [op |-> "delete", after |-> after, before |-> editor]
    /\ UNCHANGED <<get_line_result, keys, history_log>>

TerminatorNext == DeleteRead

SpecTerminator == TerminatorInit /\ [][TerminatorNext]_vars

\* The editor after the read of ESC [ 3 alone.
Deleted(before) == OnReadyToRead(before, ReadData(DeleteKey))

\* The editor after ESC [ 3 and one code point without effect have been
\* read and the code points of rest are read in state Free.
ReadAfterTerminator(before, rest) ==
    IF rest = <<>> THEN [Deleted(before) EXCEPT !.m_state = "Free"]
    ELSE OnReadyToRead([Deleted(before) EXCEPT !.m_state = "Free"], ReadData(rest))

\* What of the editor the keys read can change.
LineOf(e) ==
    <<e.m_buffer, e.m_cursor, e.m_state, e.m_finish, e.m_returned_line>>

\* C30, as claimed: the code point that follows ESC [ 3, whatever it is,
\* is consumed without effect on the buffer and the cursor and the state
\* is Free again, so the code point after it is processed as in state Free.
TerminatorIsNextCodePoint ==
    (last_call.op = "delete" /\ last_call.after # <<>>) =>
        LineOf(editor) = LineOf(ReadAfterTerminator(last_call.before,
                                                    Tail(last_call.after)))

\* The code points of a sequence that are not NUL.
RECURSIVE WithoutNul(_)
WithoutNul(code_points) ==
    IF code_points = <<>> THEN <<>>
    ELSE IF Head(code_points) = NUL THEN WithoutNul(Tail(code_points))
    ELSE <<Head(code_points)>> \o WithoutNul(Tail(code_points))

\* C30, amended: the first code point other than NUL that follows ESC [ 3
\* is consumed without effect on the buffer and the cursor and the state
\* is Free again, so the code point after it is processed as in state
\* Free; a NUL is passed over in every state and leaves the state
\* ExpectTerminator.
TerminatorIsNextNonNul ==
    last_call.op = "delete" =>
        IF WithoutNul(last_call.after) = <<>>
        THEN /\ LineOf(editor) = LineOf(Deleted(last_call.before))
             /\ editor.m_state = "ExpectTerminator"
        ELSE LineOf(editor) =
                 LineOf(ReadAfterTerminator(last_call.before,
                                            Tail(WithoutNul(last_call.after))))

\* ESC [ 3 x x read with the cursor before 'xX': the delete key took the
\* x, the first x read ended the key and the second was inserted.
TerminatorIsNextNonNulWitness ==
    /\ last_call.op = "delete"
    /\ last_call.after = <<Chr_x, Chr_x>>
    /\ last_call.before.m_buffer = <<Chr_x, Chr_X>>
    /\ last_call.before.m_cursor = 0
    /\ editor.m_buffer = <<Chr_x, Chr_X>>
    /\ editor.m_cursor = 1
    /\ editor.m_state = "Free"


(***************************************************************************)
(* Single calls of find_applicable_style on an editor whose spans were     *)
(* entered by stylize; the hash maps are walked in any order.  last_call   *)
(* keeps the offset and the style returned.                                *)
(***************************************************************************)
MaxSpanEnd == 3

MaxStyled == 2

Bold == MkStyle(TRUE, FALSE, FALSE, 0, 0, "", FALSE)

Underline == MkStyle(FALSE, FALSE, TRUE, 0, 0, "", FALSE)

\* Style::reset_style(): nothing set.
ResetStyle == MkStyle(FALSE, FALSE, FALSE, 0, 0, "", FALSE)

\* stylize called for each span of a set: bold for the spans of bold, else
\* underlined; anchored for the spans of anchored.
RECURSIVE StylizeEach(_, _, _, _)
StylizeEach(e, spans, bold, anchored) ==
    IF spans = {} THEN e
    ELSE LET sp == FirstSpan(spans)
         IN StylizeEach(Stylize(e, sp[1], sp[2],
                                [(IF sp \in bold THEN Bold ELSE Underline)
                                    EXCEPT !.is_anchored = sp \in anchored]),
                        spans \ {sp}, bold, anchored)

ApplicableInit ==
    /\ \E spans \in SUBSET SpansInside(MaxSpanEnd) :
          /\ Cardinality(spans) <= MaxStyled
          /\ \E bold \in SUBSET spans, anchored \in SUBSET spans :
                editor = StylizeEach([GetLineEnter(NewEditor(<<>>, TRUE)) EXCEPT
                                         !.m_buffer = Repeat(Chr_x, MaxSpanEnd)],
                                     spans, bold, anchored)
    /\ get_line_result = NoResult
    /\ keys = <<>>
    /\ history_log = <<>>
    /\ \E offset \in 0..MaxSpanEnd : last_call = [op |-> "offset", offset |-> offset]

\* The lambda unify on one entry of a by-start table, the spans of the
\* entry walked in any order: the styles it can leave.
RECURSIVE UnifyEntry(_, _, _, _)
UnifyEntry(style, ends, todo, offset) ==
    IF todo = {} THEN {style}
    ELSE UNION { IF en <= offset THEN {style}
                 ELSE UnifyEntry(UnifyWith(style, ends[en], TRUE), ends,
                                 todo \ {en}, offset) : en \in todo }

\* The loop over a by-start table, walked in any order.
RECURSIVE UnifyTable(_, _, _, _)
UnifyTable(styles, starting, todo, offset) ==
    IF todo = {} THEN styles
    ELSE UNION { UnifyTable(UNION { IF start >= offset THEN {style}
                                    ELSE UnifyEntry(style, starting[start],
                                                    DOMAIN starting[start], offset) :
                                    style \in styles },
                            starting, todo \ {start}, offset) : start \in todo }

\* Style Editor::find_applicable_style(size_t offset) const: the styles it
\* can return.
FindApplicableStyle(e, offset) ==
    UnifyTable(UnifyTable({ResetStyle}, e.m_spans_starting,
                          DOMAIN e.m_spans_starting, offset),
               e.m_anchored_spans_starting, DOMAIN e.m_anchored_spans_starting, offset)

\* find_applicable_style(offset)
FindApplicableCall ==
    /\ last_call.op = "offset"
    /\ \E style \in FindApplicableStyle(editor, last_call.offset) :
          last_call' = [op |-> "find_applicable_style", offset |-> last_call.offset,
                        style |-> style]
    /\ UNCHANGED <<editor, get_line_result, keys, history_log>>

ApplicableNext == FindApplicableCall

SpecApplicable == ApplicableInit /\ [][ApplicableNext]_vars

\* The styles of the spans of a by-start table that strictly contain the
\* offset.
Containing(starting, offset) ==
    { starting[sp[1]][sp[2]] :
        sp \in {q \in SpansOf(starting) : q[1] < offset /\ offset < q[2]} }

\* C32, as claimed: the style returned has a graphic rendition exactly
\* when a span, unanchored or anchored, that strictly contains the offset
\* has it, whatever the order the tables are walked in and whatever other
\* spans start where it starts.
ApplicableMergesContaining ==
    last_call.op = "find_applicable_style" =>
        LET styles == Containing(editor.m_spans_starting, last_call.offset)
                      \cup Containing(editor.m_anchored_spans_starting, last_call.offset)
        IN /\ last_call.style.bold = (\E st \in styles : st.bold)
           /\ last_call.style.underline = (\E st \in styles : st.underline)
           /\ last_call.style.italic = (\E st \in styles : st.italic)


(***************************************************************************)
(* The same bytes read in one read event and in two: on a line being       *)
(* edited the notifier fires and read() gives all the bytes, while         *)
(* last_call keeps the editor that two reads of the same bytes, split at   *)
(* some offset, lead to.                                                   *)
(***************************************************************************)
MaxInput == 4

ChunkedKeys == {ESC, Chr_LBracket, Chr_O, Chr_D, Chr_x}

ChunkedLines == { <<Chr_x, Chr_x>>, <<Chr_x, SPACE, Chr_x>> }

ChunkedInit ==
    /\ \E buffer \in ChunkedLines :
         \E cursor \in 0..Len(buffer) :
            editor = [GetLineEnter(NewEditor(<<>>, TRUE)) EXCEPT
                         !.m_buffer = buffer,
                         !.m_cursor = cursor,
                         !.m_inline_search_cursor = cursor,
                         !.m_drawn_cursor = cursor]
    /\ get_line_result = NoResult
    /\ keys = <<>>
    /\ history_log = <<>>
    /\ last_call = NoCall

\* The editor after two read events that bring the bytes before and after
\* the offset at.
ReadInTwo(e, bytes, at) ==
    OnReadyToRead(OnReadyToRead(e, ReadData(SubSeq(bytes, 1, at))),
                  ReadData(SubSeq(bytes, at + 1, Len(bytes))))

\* The notifier fires and read() gives the bytes.
ChunkedRead ==
    /\ last_call = NoCall
    /\ \E n \in 2..MaxInput :
         \E bytes \in [1..n -> ChunkedKeys], at \in 1..(n - 1) :
            /\ editor' = OnReadyToRead(editor, ReadData(bytes))
            /\ last_call' = [op |-> "read", bytes |-> bytes, at |-> at,
                             in_two |-> ReadInTwo(editor, bytes, at)]
    /\ UNCHANGED <<get_line_result, keys, history_log>>

ChunkedNext == ChunkedRead

SpecChunked == ChunkedInit /\ [][ChunkedNext]_vars

\* C34, as claimed: the buffer, the cursor and the input state after the
\* bytes are the same whether one read event brought them or two, wherever
\* the bytes were split.
ChunkingIsInvisible ==
    last_call.op = "read" =>
        /\ editor.m_buffer = last_call.in_two.m_buffer
        /\ editor.m_cursor = last_call.in_two.m_cursor
        /\ editor.m_state = last_call.in_two.m_state


(***************************************************************************)
(* Sessions in which reads bring keys, fail or are interrupted by signals; *)
(* keys keeps the code points read and last_call the last read.            *)
(***************************************************************************)
ReturnInputs == { <<Chr_x>>, <<LF>>, <<ESC, LF>>, <<VEOF>> }

ReturnInit ==
    /\ editor = NewEditor(<<>>, TRUE)
    /\ get_line_result = NoResult
    /\ keys = <<>>
    /\ history_log = <<>>
    /\ last_call = NoCall

\* The notifier fires and read() gives keys.
ReturnRead ==
    /\ \E bytes \in ReturnInputs :
          /\ Len(keys) + Len(bytes) <= MaxTyped
          /\ editor.m_incomplete_data = <<>>
          /\ Ready(ReadData(bytes))
          /\ keys' = keys \o bytes
          /\ last_call' = [op |-> "read", rd |-> ReadData(bytes)]
    /\ UNCHANGED history_log

\* The notifier fires and read() fails, interrupted by a signal or
\* otherwise, or gives no byte.
ReturnReadFails ==
    /\ \E rd \in {ReadEINTR, ReadEIO, ReadData(<<>>)} :
          /\ editor.m_incomplete_data = <<>>
          /\ Ready(rd)
          /\ last_call' = [op |-> "read", rd |-> rd]
    /\ UNCHANGED <<keys, history_log>>

ReturnNext ==
    \/ GetLine
    \/ ReturnRead
    \/ ReturnReadFails
    \/ Interrupted
    \/ LoopQuits

SpecReturn == ReturnInit /\ [][ReturnNext]_vars

\* A newline was read in state Free: not as the code point after an escape.
NewlineInFree(typed) ==
    \E i \in 1..Len(typed) : typed[i] = LF /\ (i = 1 \/ typed[i - 1] # ESC)

\* C35, as claimed: in a session without a search, get_line returns a line
\* and no error only when a newline was read in state Free; a read that a
\* signal interrupts does not make it return the buffer.
LineOnlyAfterNewline ==
    (get_line_result # NoResult /\ ~get_line_result.is_error) => NewlineInFree(keys)


(***************************************************************************)
(* Tab completion among other keys: the sessions of the tab completion,    *)
(* in which the other keys are printables, control keys and escape         *)
(* sequences; last_call keeps the last read.                               *)
(***************************************************************************)
LeaveInputs ==
    { <<Chr_x>>, <<ctrl(Chr_A)>>, <<ctrl(Chr_N)>>, <<ctrl(Chr_P)>>,
      <<ESC, Chr_LBracket, Chr_D>>, <<ESC, Chr_LBracket, Chr_H>>, <<ESC, Chr_b>>,
      <<LF>> }

\* The tab is read and the manager answers.
LeavePress ==
    /\ Notifies(editor)
    /\ editor.m_times_tab_pressed <= MaxTabs
    /\ \E attempt \in Attempts(editor) :
          Delivered(OnReadyToRead([editor EXCEPT !.attempt = attempt], ReadData(<<TAB>>)))
    /\ last_call' = [op |-> "tab"]
    /\ UNCHANGED <<keys, history_log>>

\* A key that is no tab press is read.
LeaveOtherKey ==
    /\ \E bytes \in LeaveInputs :
          /\ Ready(ReadData(bytes))
          /\ last_call' = [op |-> "read", bytes |-> bytes,
                           pressed |-> editor.m_times_tab_pressed]
    /\ UNCHANGED <<keys, history_log>>

LeaveNext ==
    \/ GetLine
    \/ LeavePress
    \/ LeaveOtherKey
    \/ LoopQuits

SpecLeave == TabInit /\ [][LeaveNext]_vars

\* C36, as claimed: after a key that is no tab press, be it a printable, a
\* control key or an escape sequence, the completion is over: the tab
\* press counter is 0 and the manager holds no suggestions, so that the
\* next tab press asks on_tab_complete again.
OtherKeyLeavesCompletion ==
    last_call.op = "read" =>
        /\ editor.m_times_tab_pressed = 0
        /\ last_call.pressed > 0 => editor.suggestion_count = 0


(***************************************************************************)
(* The terminal in a session: last_call keeps the text the terminal shows  *)
(* after the prompt and the offset of its cursor in that text, as the      *)
(* writes of refresh_display leave them.                                   *)
(***************************************************************************)
\* The cells before the cursor of the terminal: the text, and blank cells
\* where the cursor is past its end.
CellsBefore(text, cursor) ==
    [i \in 1..cursor |-> IF i <= Len(text) THEN text[i] ELSE SPACE]

\* The terminal writes the code points over the text from its cursor on.
WrittenAt(text, cursor, code_points) ==
    CellsBefore(text, cursor) \o code_points
        \o SubSeq(text, cursor + Len(code_points) + 1, Len(text))

\* The terminal after refresh_display called in the state e: the cursor
\* moved; or the pending characters written where the cursor of the
\* terminal is; or the line drawn again from the origin and the cursor
\* moved.
Drawn(screen, e) ==
    IF PureCursorMovement(e)
    THEN [op |-> "drawn", text |-> screen.text, cursor |-> e.m_cursor]
    ELSE IF e.m_cached_prompt_valid /\ ~e.m_refresh_needed /\ e.m_cursor = Len(e.m_buffer)
    THEN [op |-> "drawn",
          text |-> WrittenAt(screen.text, screen.cursor, e.m_pending_chars),
          cursor |-> screen.cursor + Len(e.m_pending_chars)]
    ELSE [op |-> "drawn", text |-> e.m_buffer, cursor |-> e.m_cursor]

\* The reads of the session: single keys, and an insertion at the start or
\* at the cursor followed by a move to the end in the same read.
ScreenInputs ==
    { <<Chr_x>>, <<Chr_X>>, <<ctrl(Chr_A)>>, <<ctrl(Chr_B)>>, <<ctrl(Chr_E)>>, <<BS>>,
      <<Chr_X, ctrl(Chr_E)>>, <<ctrl(Chr_A), Chr_X, ctrl(Chr_E)>> }

\* The editor as refresh_display finds it after a read event.
BeforeRefresh(e) == [e EXCEPT !.m_refresh_needed = @ \/ e.m_always_refresh]

ScreenInit ==
    /\ editor = GetLineEnter(NewEditor(<<>>, TRUE))
    /\ get_line_result = NoResult
    /\ keys = <<>>
    /\ history_log = <<>>
    /\ last_call = [op |-> "drawn", text |-> <<>>, cursor |-> 0]

\* The notifier fires, read() gives keys and the display is refreshed.
ScreenRead ==
    /\ \E bytes \in ScreenInputs :
          /\ Ready(ReadData(bytes))
          /\ last_call' = Drawn(last_call, BeforeRefresh(HandleReadEvent(editor, ReadData(bytes))))
    /\ UNCHANGED <<keys, history_log>>

ScreenNext == ScreenRead

SpecScreen == ScreenInit /\ [][ScreenNext]_vars

\* C37, as claimed: after every refresh the text the terminal shows after
\* the prompt is the buffer and the cursor of the terminal is where the
\* editor has drawn it.
ScreenShowsBuffer ==
    /\ last_call.text = editor.m_buffer
    /\ last_call.cursor = editor.m_drawn_cursor


(***************************************************************************)
(* vt_dsr against the terminal.  The standard input of the program is one  *)
(* queue: what the user types and what the terminal answers to ESC [ 6 n   *)
(* arrive in it in the order they were sent.  last_call keeps the place    *)
(* vt_dsr is at, the queue, buf, the position the terminal answered with   *)
(* and the position vt_dsr returned; keys keeps what the user typed.       *)
(***************************************************************************)
\* char buf[16]
DsrBufferSize == 16

\* The number of keys the user types around the query.
MaxDsrTyped == 2

\* The keys the user types around the query.
DsrKeys == {Chr_x, Chr_R}

\* The positions the terminal answers with.
DsrPositions == { <<2, 1>>, <<12, 5>> }

\* The decimal digits of n.
RECURSIVE Decimal(_)
Decimal(n) ==
    IF n < 10 THEN <<Chr_0 + n>> ELSE Decimal(n \div 10) \o <<Chr_0 + (n % 10)>>

\* The answer of the terminal: ESC [ row ; col R.
DsrResponse(position) ==
    <<ESC, Chr_LBracket>> \o Decimal(position[1]) \o <<Chr_Semicolon>>
        \o Decimal(position[2]) \o <<Chr_R>>

\* StringView::split_view(';'): the parts between the separators, the empty
\* ones left out.
RECURSIVE SplitAtSemicolon(_, _)
SplitAtSemicolon(view, part) ==
    IF view = <<>> THEN (IF part = <<>> THEN <<>> ELSE <<part>>)
    ELSE IF Head(view) = Chr_Semicolon
    THEN (IF part = <<>> THEN <<>> ELSE <<part>>) \o SplitAtSemicolon(Tail(view), <<>>)
    ELSE SplitAtSemicolon(Tail(view), Append(part, Head(view)))

\* StringView::to_int(): the number a view of digits stands for, -1 for
\* a view that is no number.
RECURSIVE ToInt(_)
ToInt(view) ==
    IF view = <<>> \/ \E i \in 1..Len(view) : view[i] \notin Chr_0..(Chr_0 + 9)
    THEN -1
    ELSE IF Len(view) = 1 THEN view[1] - Chr_0
    ELSE 10 * ToInt(SubSeq(view, 1, Len(view) - 1)) + (view[Len(view)] - Chr_0)

\* The row and the column vt_dsr takes from buf: 1, 1 unless buf starts
\* with ESC [ and its parts are numbers; no position where parts[1] does
\* not exist.
DsrParsed(buf) ==
    IF Len(buf) >= 2 /\ buf[1] = ESC /\ buf[2] = Chr_LBracket
    THEN LET parts == SplitAtSemicolon(SubSeq(buf, 3, Len(buf) - 1), <<>>)
         IN IF Len(parts) < 2 THEN <<>>
            ELSE << IF ToInt(parts[1]) = -1 THEN 1 ELSE ToInt(parts[1]),
                    IF ToInt(parts[2]) = -1 THEN 1 ELSE ToInt(parts[2]) >>
    ELSE <<1, 1>>

\* get_line has initialized and reset the editor and calls set_origin().
DsrInit ==
    /\ editor = Reset([Initialize(NewEditor(<<>>, TRUE)) EXCEPT !.m_is_editing = TRUE])
    /\ get_line_result = NoResult
    /\ keys = <<>>
    /\ history_log = <<>>
    /\ last_call = [op |-> "vt_dsr", pc |-> "junk", stdin |-> <<>>, buf |-> <<>>,
                    response |-> <<>>, position |-> <<>>]

\* The user types a key; the terminal queues it.
UserTypes ==
    /\ Len(keys) < MaxDsrTyped
    /\ \E k \in DsrKeys :
          /\ keys' = Append(keys, k)
          /\ last_call' = [last_call EXCEPT !.stdin = Append(@, k)]
    /\ UNCHANGED <<editor, get_line_result, history_log>>

\* select() finds input and read(0, buf, 16) gives some of it, which goes
\* to m_incomplete_data.
DsrJunkRead ==
    /\ last_call.pc = "junk"
    /\ \E nread \in 1..Len(last_call.stdin) :
          /\ nread <= DsrBufferSize
          /\ editor' = [editor EXCEPT
                 !.m_incomplete_data = @ \o SubSeq(last_call.stdin, 1, nread)]
          /\ last_call' = [last_call EXCEPT
                 !.stdin = SubSeq(@, nread + 1, Len(@))]
    /\ UNCHANGED <<get_line_result, keys, history_log>>

\* select() finds no input: ESC [ 6 n is written to the terminal.
DsrQuery ==
    /\ last_call.pc = "junk"
    /\ last_call.stdin = <<>>
    /\ last_call' = [last_call EXCEPT !.pc = "response"]
    /\ UNCHANGED <<editor, get_line_result, keys, history_log>>

\* The terminal answers the query with its position.
TerminalAnswers ==
    /\ last_call.pc \in {"response", "done"}
    /\ last_call.response = <<>>
    /\ \E position \in DsrPositions :
          last_call' = [last_call EXCEPT !.response = position,
                                         !.stdin = @ \o DsrResponse(position)]
    /\ UNCHANGED <<editor, get_line_result, keys, history_log>>

\* read(0, buf + length, 16 - length) gives some of the input; the loop
\* ends with an R at the end of buf or a full buf, and buf is parsed.
DsrResponseRead ==
    /\ last_call.pc = "response"
    /\ \E nread \in 1..Len(last_call.stdin) :
          /\ nread <= DsrBufferSize - Len(last_call.buf)
          /\ LET buf == last_call.buf \o SubSeq(last_call.stdin, 1, nread)
                 ends == buf[Len(buf)] = Chr_R \/ Len(buf) >= DsrBufferSize
             IN last_call' = [last_call EXCEPT
                    !.buf = buf,
                    !.stdin = SubSeq(@, nread + 1, Len(@)),
                    !.pc = IF ends THEN "done" ELSE @,
                    !.position = IF ends THEN DsrParsed(buf) ELSE @]
    /\ UNCHANGED <<editor, get_line_result, keys, history_log>>

\* A read of vt_dsr fails or gives no byte: the error is recorded and the
\* session finished, but for a read of no byte among the junk, after which
\* the query is written.
DsrReadFails ==
    /\ last_call.pc \in {"junk", "response"}
    /\ \E nread \in {-1, 0} :
          /\ nread = 0 => last_call.stdin = <<>>
          /\ IF nread = 0 /\ last_call.pc = "junk"
             THEN /\ last_call' = [last_call EXCEPT !.pc = "response"]
                  /\ UNCHANGED editor
             ELSE /\ editor' = Finish([editor EXCEPT
                         !.m_input_error = IF nread = 0 THEN "Empty" ELSE "ReadFailure"])
                  /\ last_call' = [last_call EXCEPT !.pc = "done", !.position = <<1, 1>>]
    /\ UNCHANGED <<get_line_result, keys, history_log>>

DsrNext ==
    \/ UserTypes
    \/ DsrJunkRead
    \/ DsrQuery
    \/ TerminalAnswers
    \/ DsrResponseRead
    \/ DsrReadFails

SpecDsr == DsrInit /\ [][DsrNext]_vars

\* C38: when vt_dsr has returned without an error, what the user typed is,
\* in order, what m_incomplete_data holds followed by what is still to be
\* read, and the position returned is the one the terminal answered with.
DsrKeepsInput ==
    (last_call.pc = "done" /\ editor.m_input_error = NoError)
        => /\ editor.m_incomplete_data \o last_call.stdin = keys
           /\ last_call.position = last_call.response


(***************************************************************************)
(* The span tables under stylize, strip_styles, insert and                 *)
(* remove_at_index, called in any order on an editor in a session.         *)
(***************************************************************************)
\* The styles given to stylize.
TableStyles == {Bold, Underline, AnchoredUnderline}

\* The spans of both collections.
StyledSpans(e) == Cardinality(SpansOf(e.m_spans_starting)) + Cardinality(AnchoredSpans(e))

\* The span is in the by-start table of the collection of the style.
IsStyled(e, sp, style) ==
    sp \in (IF style.is_anchored THEN AnchoredSpans(e) ELSE SpansOf(e.m_spans_starting))

TablesInit ==
    /\ \E len \in 0..MaxLen :
         \E cursor \in 0..len :
            editor = EditorWith(len, cursor, {})
    /\ get_line_result = NoResult
    /\ keys = <<>>
    /\ history_log = <<>>
    /\ last_call = [op |-> "none", replaced |-> FALSE]

\* stylize({start, end}, style), the span inside the buffer.
TablesStylize ==
    /\ \E sp \in SpansInside(Len(editor.m_buffer)) :
         \E style \in TableStyles :
            /\ IsStyled(editor, sp, style) \/ StyledSpans(editor) < MaxStyled
            /\ editor' = Stylize(editor, sp[1], sp[2], style)
            /\ last_call' = [op |-> "stylize",
                             replaced |-> /\ IsStyled(editor, sp, style)
                                          /\ editor' # editor]
    /\ UNCHANGED <<get_line_result, keys, history_log>>

\* strip_styles(strip_anchored)
TablesStrip ==
    /\ \E strip_anchored \in BOOLEAN :
          editor' = StripStyles(editor, strip_anchored)
    /\ last_call' = [op |-> "strip", replaced |-> FALSE]
    /\ UNCHANGED <<get_line_result, keys, history_log>>

\* insert(cp) at the cursor, the display refreshed after it as after a
\* read event.
TablesInsert ==
    /\ Len(editor.m_buffer) < MaxLen
    /\ editor' = RefreshAfterRead(Insert(editor, Chr_x))
    /\ last_call' = [op |-> "insert", replaced |-> FALSE]
    /\ UNCHANGED <<get_line_result, keys, history_log>>

\* remove_at_index(index) as do_backspace and do_delete call it, before
\* and at the cursor, the display refreshed after it.
TablesRemove ==
    /\ \/ /\ editor.m_cursor > 0
          /\ editor' = RefreshAfterRead(DoBackspace(editor))
       \/ /\ editor.m_cursor < Len(editor.m_buffer)
          /\ editor' = RefreshAfterRead(DoDelete(editor))
    /\ last_call' = [op |-> "remove", replaced |-> FALSE]
    /\ UNCHANGED <<get_line_result, keys, history_log>>

TablesNext ==
    \/ TablesStylize
    \/ TablesStrip
    \/ TablesInsert
    \/ TablesRemove

SpecTables == TablesInit /\ [][TablesNext]_vars

\* The by-end table holds start under end with the style the by-start
\* table holds for end under start, and nothing else.
Mirrored(starting, ending) ==
    /\ \A s \in DOMAIN starting : \A en \in DOMAIN starting[s] :
          /\ en \in DOMAIN ending
          /\ s \in DOMAIN ending[en]
          /\ ending[en][s] = starting[s][en]
    /\ \A en \in DOMAIN ending : \A s \in DOMAIN ending[en] :
          /\ s \in DOMAIN starting
          /\ en \in DOMAIN starting[s]
          /\ starting[s][en] = ending[en][s]

\* C39: in each collection the by-start and the by-end table hold the same
\* spans with the same styles.
TablesDescribeSameSpans ==
    /\ Mirrored(editor.m_spans_starting, editor.m_spans_ending)
    /\ Mirrored(editor.m_anchored_spans_starting, editor.m_anchored_spans_ending)

\* stylize has given another style to a span that was in the tables, and
\* both collections hold a span.
TablesDescribeSameSpansWitness ==
    /\ last_call.op = "stylize"
    /\ last_call.replaced
    /\ editor.m_spans_starting # EmptyMap
    /\ editor.m_anchored_spans_starting # EmptyMap


(***************************************************************************)
(* The search offset in a recall session.                                  *)
(***************************************************************************)
\* The number of history entries that start with the phrase.
Matching(history, phrase) ==
    Cardinality({i \in 1..Len(history) : StartsWith(history[i], phrase)})

\* C40: while a line is edited the search offset has not wrapped below 0
\* and is at most the number of history entries matching the recall
\* prefix, the buffer up to m_inline_search_cursor.
SearchOffsetInRange ==
    editor.m_is_editing =>
        editor.m_search_offset
            <= Matching(editor.m_history, BufferView(editor, editor.m_inline_search_cursor))

====
